---- MODULE Spec2Model ----
(***************************************************************************)
(* Model of the safety-interlocked setup controller (TheSetup.py): the     *)
(* status derivation, the set-point and bias-voltage interlocks and the    *)
(* start/stop choreography, together with the hardware the controller      *)
(* talks to (climate chamber, ambient sensor, power-supply channels).      *)
(*                                                                         *)
(* Time is counted in seconds per call: `elapsed` is time.time() minus the *)
(* instant the current wait started; a time.sleep(n) advances it by n and  *)
(* hardware reads take no time.                                            *)
(***************************************************************************)
EXTENDS Integers, Sequences, FiniteSets, TLC

\* ------------------------------------------------------------------ bounds
\* Number of slots of the model (the rig has 8).
NSlots == 2
\* Largest timeout a caller passes to start()/stop(), in seconds.
MaxTimeout == 11
\* The modification time of the devices configuration goes up to this.
MaxSaves == 3
\* The interval between two standby records of a slot, in seconds, that the
\* devices table asks for.
LogEvery == 2

\* --------------------------------------------------------- program constants
MAX_OPERATING_TEMPERATURE == -18
UNBIASED_VOLTAGE_THRESHOLD == 5
NORMAL_OPERATING_TEMPERATURE == -20
ROOM_TEMPERATURE == 20
WARM_THRESHOLD == 18
SLEEP_POLL == 11
SLEEP_SETTLE == 1
THREADS_SLEEP_TIME == 1
TEMPERATURE_THRESHOLD == -18
BIAS_VOLTAGE_THRESHOLD == 5
CHECKING_TIME_IN_SECONDS == 60

\* -------------------------------------------------------------- value sets
slots_names == 1..NSlots
\* A slot name that is not in the slot table.
BadSlot == 0
SlotArgs == slots_names \cup {BadSlot}
\* Voltages a caller may request and a channel may show: zero, and a negative
\* and a positive one whose magnitude is above the threshold.
Voltages == {0 - 11, 0, 11}
\* Sensor temperatures: below and at the maximum operating temperature, and
\* at the warm threshold (which is above it).
Temperatures == {NORMAL_OPERATING_TEMPERATURE, MAX_OPERATING_TEMPERATURE, WARM_THRESHOLD}
\* Set-points a caller may request.
SetPoints == {NORMAL_OPERATING_TEMPERATURE, MAX_OPERATING_TEMPERATURE, ROOM_TEMPERATURE}
\* Relative humidity readings, and the threshold a caller passes to start().
Humidities == {20, 21}
HumidityThresholds == {20}
\* Timeouts a caller may pass: one shorter than a poll interval, one not.
MinTimeout == 5
Timeouts == {MinTimeout, MaxTimeout}
Threads == {"main", "aux"}

\* ------------------------------------------------------------------- state
VARIABLES
    is_running,             \* ClimateChamber.is_running
    temperature_set_point,  \* ClimateChamber.temperature_set_point
    dryer,                  \* ClimateChamber.dryer
    compressed_air,         \* ClimateChamber.compressed_air
    temperature,            \* SensirionSensor.temperature
    humidity,               \* SensirionSensor.humidity
    V_set,                  \* OneCAENChannel.V_set, per slot
    V_mon,                  \* OneCAENChannel.V_mon, per slot
    th,                     \* per thread: the call in progress and the last result;
                            \* log (history): the hardware actions of the call so far;
                            \* dry (history): the humidity was at or below the value
                            \* start() was asked for at some moment of the call so far
    drifted,                \* history: the sensor readings changed since Init
    keep_running,           \* LongTermSetupDaemon._keep_running
    slots_locks,            \* LongTermSetupDaemon._slots_locks: per slot, the owner
    run_pc,                 \* the position of the thread that called run()
    devices_file,           \* the contents of devices_configuration.ods
    climatic_file,          \* the contents of climatic.ods
    setup_run,              \* whether the file setup.run exists
    setup_stop,             \* whether the file setup.stop exists
    telegram,               \* TelegramReporter: the last message sent, and a bit
                            \* that every send_message flips
    current_compliance,     \* OneCAENChannel.current_compliance, per slot
    slots_df,               \* the slots table given to TheSetup(...)
    caen_outputs_per_slot,  \* TheSetup._caen_outputs_per_slot, and how the
                            \* construction ended
    mtime,                  \* st_mtime of devices_configuration.ods, counted in
                            \* modifications, with which the clock advances
    df_state,               \* the attributes behind devices_configuration_df:
                            \* lock: the thread whose call made the lock object now
                            \* in __devices_configuration_df_lock; held: per lock
                            \* object, its owner; last: the time of the last update;
                            \* df: __devices_configuration_df; loaded (history):
                            \* the modification time of the file as last loaded
    rd,                     \* per thread: its call of devices_configuration_df
    wk,                     \* per worker thread of the daemon: its position and locals;
                            \* skipped (history): the slots it passed over because
                            \* their lock was taken, and has not configured since
    standby_log             \* standby_IV_log.csv: per slot, the parity of the
                            \* number of its records

hw == <<is_running, temperature_set_point, dryer, compressed_air, V_set>>
env == <<temperature, humidity, V_mon, drifted>>
supervision == <<keep_running, run_pc>>
control == <<devices_file, climatic_file, setup_run, setup_stop>>
construction == <<slots_df, caen_outputs_per_slot>>
snapshot == <<mtime, df_state, rd>>
telemetry == <<standby_log>>
daemon == <<supervision, slots_locks, control, telegram, current_compliance, wk>>
vars == <<is_running, temperature_set_point, dryer, compressed_air, temperature, humidity, V_set, V_mon, th, drifted, keep_running, run_pc, slots_locks, devices_file, climatic_file, setup_run, setup_stop, telegram, current_compliance, wk, slots_df, caen_outputs_per_slot, mtime, df_state, rd, standby_log>>

\* Results of a call.
OK == "ok"
InterlockViolation == "InterlockViolation"
InvalidTransition == "InvalidTransition"
UnknownSlot == "UnknownSlot"
TimeoutHumidity == "Timeout: humidity"
TimeoutCooling == "Timeout: cooling down"
TimeoutUnbias == "Timeout: unbias"
TimeoutWarmUp == "Timeout: warm up"
NotCoolingDown == "InvariantViolation: not cooling down"
NotReady == "InvariantViolation: not ready to operate"
NotStopped == "InvariantViolation: not stopped"

Idle ==
    [pc |-> "idle", op |-> "none", res |-> "none", slot |-> BadSlot, volt |-> 0,
     celsius |-> 0, hum |-> 0, t1 |-> 0, t2 |-> 0, todo |-> {}, elapsed |-> 0,
     log |-> <<>>, dry |-> FALSE]

\* ------------------------------------------------------- derived quantities
Abs(v) == IF v < 0 THEN 0 - v ELSE v

is_any_slot_biased ==
    \E s \in slots_names : Abs(V_mon[s]) > UNBIASED_VOLTAGE_THRESHOLD

status ==
    IF ~is_running THEN "not running"
    ELSE IF temperature_set_point < MAX_OPERATING_TEMPERATURE
         THEN IF temperature < MAX_OPERATING_TEMPERATURE
              THEN "ready to operate"
              ELSE IF ~is_any_slot_biased THEN "cooling down" ELSE "error"
         ELSE IF is_any_slot_biased THEN "error" ELSE "warm"

\* As set_point_interlock, with the boundary value refused too.
set_point_interlock_inclusive(celsius) ==
    celsius >= MAX_OPERATING_TEMPERATURE /\ is_any_slot_biased

\* Line 89: the condition under which the set-point setter raises.
set_point_interlock(celsius) ==
    celsius > MAX_OPERATING_TEMPERATURE /\ is_any_slot_biased

\* ------------------------------------------------------------ frame helpers
\* The frame of a call that has just been entered.
Enter(name) == [Idle EXCEPT !.op = name]

\* The frame of a call that ended with result r: its name and its result stay
\* readable, its arguments and locals are gone.
Ret(f, r) == [Idle EXCEPT !.op = f.op, !.res = r]

\* As deadline_passed, one poll interval late.
deadline_passed_late(elapsed, timeout) == elapsed > timeout + SLEEP_POLL

\* Lines 200, 210, 228, 235: the deadline test made after each sleep.
deadline_passed(elapsed, timeout) == elapsed > timeout

Goto(f, label) == [f EXCEPT !.pc = label]

Logged(f, entries) == [f EXCEPT !.log = f.log \o entries]

Set(t, f) == th' = [th EXCEPT ![t] = f]

\* ------------------------------------------------------ daemon: value sets
\* The worker threads of run() that the model follows.
DEVICES == "update_devices_standby_conditions_thread"
CHAMBER == "update_chamber_temperature_thread"
RUNSTOP == "start_stop_test_thread"
WATCHDOG == "temperature_monitoring_thread"
LOGGER == "log_devices_standby_IV_thread"
Workers == {DEVICES, CHAMBER, RUNSTOP, WATCHDOG, LOGGER}
\* Who may own a slot's lock: a worker, or a thread outside run() (the lock
\* table exists for measurements such as IV curves and beta scans, line 52).
FREE == "free"
EXTERNAL == "external"
\* The rows of the devices table: a standby voltage, a current compliance (in
\* microampere) and the interval between two standby records (in seconds);
\* every slot has the same row.
Row(v, c) == [standby |-> v, compliance |-> c, every |-> LogEvery]
\* A devices table with a row for every slot.
FullTable(v, c) == [readable |-> TRUE, rows |-> [s \in slots_names |-> Row(v, c)]]
\* A devices table in which the row of slot s is missing (renamed or removed).
TableWithout(s, v, c) ==
    [readable |-> TRUE, rows |-> [x \in slots_names \ {s} |-> Row(v, c)]]
\* The tables somebody may write to the file: an unbiased standby, a biased
\* one, and the biased one with the first slot's row gone.
DevicesTables == {FullTable(0, 1), FullTable(11, 2), TableWithout(1, 11, 2)}
\* What the file holds when it cannot be read (half written, not a spreadsheet).
Unreadable == [readable |-> FALSE, rows |-> <<>>]
\* A local variable that holds no table yet.
NoTable == Unreadable
\* The climatic table: one row with the standby temperature.
ClimaticTable(c) == [readable |-> TRUE, rows |-> <<[standby_temperature |-> c]>>]
ClimaticTables == {ClimaticTable(NORMAL_OPERATING_TEMPERATURE), ClimaticTable(ROOM_TEMPERATURE)}
NoMessage == [msg |-> "none", bit |-> FALSE]
NoCompliance == 0

\* A worker that run() has not started.
Unstarted ==
    [pc |-> "unstarted", previous |-> NoTable, current |-> NoTable, first |-> FALSE,
     todo |-> {}, slot |-> BadSlot, cfg |-> NoTable, error |-> "none", skipped |-> {},
     since |-> 0, last |-> [s \in slots_names |-> 0]]

\* ------------------------------------------------------- the slots table
\* Line 71: rows whose slot name is 'nan' define no slot.
nan == 0
KnownModels == {"DT1419ET", "DT1470ET"}
KnownSerials == {"139", "13398"}
KnownChannels == 0..3
SlotRow(n, m, s, c) == [name |-> n, model |-> m, serial |-> s, channel |-> c]
SlotsColumns == {"Slot name", "CAEN model name", "CAEN serial number", "CAEN channel number"}

\* A table that connects every channel of the two supplies, the first NSlots
\* of them to the slots.
GoodSlots ==
    [columns |-> SlotsColumns,
     rows |-> [i \in 1..8 |->
                SlotRow(IF i <= NSlots THEN i ELSE nan,
                        IF i <= 4 THEN "DT1419ET" ELSE "DT1470ET",
                        IF i <= 4 THEN "139" ELSE "13398",
                        (i - 1) % 4)]]

\* Lines 9-18, check_integrity_of_slots_df: TRUE when no error is raised.
check_integrity_of_slots_df(df) ==
    LET Column(field) == {df.rows[i][field] : i \in 1..Len(df.rows)} IN
    /\ df.columns = SlotsColumns
    /\ Column("model") = KnownModels
    /\ Column("serial") = KnownSerials
    /\ Column("channel") = KnownChannels
    /\ Cardinality({<<df.rows[i].model, df.rows[i].serial, df.rows[i].channel>> :
                        i \in 1..Len(df.rows)}) = 8

Unbuilt == [result |-> "unbuilt", outputs |-> <<>>]

\* Lines 63-77, TheSetup.__init__: check the table, then make one channel
\* object (supply, channel number) per named slot. No slot name is on two rows
\* of the tables considered.
TheSetup(df) ==
    IF ~check_integrity_of_slots_df(df)
    THEN [result |-> "ValueError", outputs |-> <<>>]
    ELSE LET named == {i \in 1..Len(df.rows) : df.rows[i].name # nan}
             RowOf(n) == CHOOSE i \in named : df.rows[i].name = n IN
         [result |-> "ok",
          outputs |-> [n \in {df.rows[i].name : i \in named} |->
                        <<df.rows[RowOf(n)].serial, df.rows[RowOf(n)].channel>>]]

\* What somebody may do to a table: change one cell, add a row for a new slot
\* or for none, remove a row, rename a column.
Cells ==
    [field : {"model"}, value : KnownModels \cup {"N1471"}]
        \cup [field : {"serial"}, value : KnownSerials \cup {"0"}]
        \cup [field : {"channel"}, value : KnownChannels \cup {4}]
Edited(df) ==
    {[df EXCEPT !.rows[i][c.field] = c.value] : i \in 1..Len(df.rows), c \in Cells}
        \cup {[df EXCEPT !.rows = Append(df.rows, [df.rows[i] EXCEPT !.name = n])] :
                    i \in 1..Len(df.rows), n \in {nan, Len(df.rows) + 1}}
        \cup {[df EXCEPT !.rows = SubSeq(df.rows, 1, i - 1) \o SubSeq(df.rows, i + 1, Len(df.rows))] :
                    i \in 1..Len(df.rows)}
        \cup {[df EXCEPT !.columns = SlotsColumns \ {"Slot name"}]}

\* The tables at most two such changes away from the good one.
SlotTables == {GoodSlots} \cup Edited(GoodSlots) \cup UNION {Edited(df) : df \in Edited(GoodSlots)}

\* The state of a program that has constructed TheSetup from a good table.
Constructed ==
    /\ slots_df = GoodSlots
    /\ caen_outputs_per_slot = TheSetup(GoodSlots)

\* The threads that read the devices configuration.
Readers == {DEVICES, LOGGER}
\* began (history): the modification time of the file when the call began.
NotReading == [pc |-> "idle", lock |-> "none", result |-> NoTable, error |-> "none", began |-> 0]

\* The standby log has no record yet.
NoRecords == standby_log = [s \in slots_names |-> 0]

\* Nobody has read the devices configuration yet.
NoReaders ==
    /\ mtime = 1
    /\ df_state = [lock |-> "none", held |-> [r \in Readers |-> FREE], last |-> 0,
                   df |-> NoTable, loaded |-> 0]
    /\ rd = [r \in Readers |-> NotReading]

\* The daemon's part of a state in which no daemon runs.
NoDaemon ==
    /\ NoRecords
    /\ NoReaders
    /\ keep_running = FALSE
    /\ run_pc = "not called"
    /\ slots_locks = [s \in slots_names |-> FREE]
    /\ devices_file = FullTable(0, 1)
    /\ climatic_file = ClimaticTable(NORMAL_OPERATING_TEMPERATURE)
    /\ setup_run = TRUE
    /\ setup_stop = FALSE
    /\ telegram = NoMessage
    /\ current_compliance = [s \in slots_names |-> NoCompliance]
    /\ wk = [w \in Workers |-> Unstarted]

Init ==
    /\ NoDaemon
    /\ Constructed
    /\ is_running = FALSE
    /\ temperature_set_point = ROOM_TEMPERATURE
    /\ dryer = FALSE
    /\ compressed_air = FALSE
    /\ temperature \in Temperatures
    /\ humidity \in Humidities
    /\ V_set = [s \in slots_names |-> 0]
    /\ V_mon = [s \in slots_names |-> 0]
    /\ th = [t \in Threads |-> Idle]
    /\ drifted = FALSE

\* ------------------------------------------------------- set_bias_voltage
\* As bias_needs_interlock, with the threshold itself included.
bias_needs_interlock_inclusive(volt) == volt >= UNBIASED_VOLTAGE_THRESHOLD

\* Line 126: the voltages for which the interlock is consulted.
bias_needs_interlock(volt) == volt > UNBIASED_VOLTAGE_THRESHOLD

\* Line 127: the status check of the interlock.
bias_status_rejected == status # "ready to operate"

\* Line 129: the temperature check of the interlock.
bias_temperature_rejected == temperature > MAX_OPERATING_TEMPERATURE

\* Lines 125-128: cast the voltage, and for a voltage above the threshold read
\* the status.
set_bias_voltage_status(t, s, v) ==
    /\ th[t].pc = "idle"
    /\ LET f == [Enter("set_bias_voltage") EXCEPT !.slot = s, !.volt = v] IN
       Set(t, IF bias_needs_interlock(v)
              THEN IF bias_status_rejected
                   THEN Ret(f, InterlockViolation)
                   ELSE Goto(f, "sbv_temperature")
              ELSE Goto(f, "sbv_write"))
    /\ UNCHANGED <<hw, env, daemon, construction, snapshot, telemetry>>

\* Lines 129-130: read the temperature.
set_bias_voltage_temperature(t) ==
    /\ th[t].pc = "sbv_temperature"
    /\ Set(t, IF bias_temperature_rejected
              THEN Ret(th[t], InterlockViolation)
              ELSE Goto(th[t], "sbv_write"))
    /\ UNCHANGED <<hw, env, daemon, construction, snapshot, telemetry>>

\* As set_bias_voltage_write, with the write inside the `if` of line 126.
set_bias_voltage_write_indented(t) ==
    /\ th[t].pc = "sbv_write"
    /\ IF th[t].slot \in slots_names /\ bias_needs_interlock(th[t].volt)
       THEN V_set' = [V_set EXCEPT ![th[t].slot] = th[t].volt]
       ELSE V_set' = V_set
    /\ Set(t, Ret(th[t], OK))
    /\ UNCHANGED <<is_running, temperature_set_point, dryer, compressed_air, env, daemon, construction, snapshot, telemetry>>

\* Line 131: look the channel up (an unknown slot raises) and write V_set.
set_bias_voltage_write(t) ==
    /\ th[t].pc = "sbv_write"
    /\ IF th[t].slot \in slots_names
       THEN /\ V_set' = [V_set EXCEPT ![th[t].slot] = th[t].volt]
            /\ Set(t, Ret(th[t], OK))
       ELSE /\ V_set' = V_set
            /\ Set(t, Ret(th[t], UnknownSlot))
    /\ UNCHANGED <<is_running, temperature_set_point, dryer, compressed_air, env, daemon, construction, snapshot, telemetry>>

\* ------------------------------------------------ temperature_set_point setter
\* Lines 88-90: cast the value and consult the interlock.
temperature_set_point_check(t, c) ==
    /\ th[t].pc = "idle"
    /\ LET f == [Enter("temperature_set_point") EXCEPT !.celsius = c] IN
       Set(t, IF set_point_interlock(c)
              THEN Ret(f, InterlockViolation)
              ELSE Goto(f, "tsp_write"))
    /\ UNCHANGED <<hw, env, daemon, construction, snapshot, telemetry>>

\* Line 91: write the chamber's set-point.
temperature_set_point_write(t) ==
    /\ th[t].pc = "tsp_write"
    /\ temperature_set_point' = th[t].celsius
    /\ Set(t, Ret(th[t], OK))
    /\ UNCHANGED <<is_running, dryer, compressed_air, V_set, env, daemon, construction, snapshot, telemetry>>

\* ----------------------------------------------------------------- start
\* As start_check, without the test of the status.
start_check_unguarded(t, h, hto, cto) ==
    /\ th[t].pc = "idle"
    /\ Set(t, Goto([Enter("start") EXCEPT !.hum = h, !.t1 = hto, !.t2 = cto,
                                          !.dry = ~(humidity > h)], "start_dryer"))
    /\ UNCHANGED <<hw, env, daemon, construction, snapshot, telemetry>>

\* Lines 184-188: validate the arguments and require status 'not running'.
start_check(t, h, hto, cto) ==
    /\ th[t].pc = "idle"
    /\ LET f == [Enter("start") EXCEPT !.hum = h, !.t1 = hto, !.t2 = cto,
                                       !.dry = ~(humidity > h)] IN
       Set(t, IF status # "not running"
              THEN Ret(f, InvalidTransition)
              ELSE Goto(f, "start_dryer"))
    /\ UNCHANGED <<hw, env, daemon, construction, snapshot, telemetry>>

\* Lines 190-191: enable the dryer and the compressed air.
start_dryer(t) ==
    /\ th[t].pc = "start_dryer"
    /\ dryer' = TRUE
    /\ compressed_air' = TRUE
    /\ Set(t, Goto(Logged(th[t], <<"dryer", "compressed_air">>), "start_room"))
    /\ UNCHANGED <<is_running, temperature_set_point, V_set, env, daemon, construction, snapshot, telemetry>>

\* Line 192: set-point to room temperature, through the interlocked setter.
start_room(t) ==
    /\ th[t].pc = "start_room"
    /\ IF set_point_interlock(ROOM_TEMPERATURE)
       THEN /\ temperature_set_point' = temperature_set_point
            /\ Set(t, Ret(th[t], InterlockViolation))
       ELSE /\ temperature_set_point' = ROOM_TEMPERATURE
            /\ Set(t, [Goto(Logged(th[t], <<"set_point_room">>), "start_zero")
                         EXCEPT !.todo = slots_names])
    /\ UNCHANGED <<is_running, dryer, compressed_air, V_set, env, daemon, construction, snapshot, telemetry>>

\* Lines 193-194: one iteration of the loop setting every slot to 0 V, through
\* set_bias_voltage (whose interlock is not consulted for 0 V).
start_zero(t) ==
    /\ th[t].pc = "start_zero"
    /\ \E s \in th[t].todo :
        /\ ~bias_needs_interlock(0)
        /\ V_set' = [V_set EXCEPT ![s] = 0]
        /\ LET f == [Logged(th[t], <<"zero">>) EXCEPT !.todo = th[t].todo \ {s}] IN
           Set(t, IF f.todo = {} THEN Goto(f, "start_chamber") ELSE f)
    /\ UNCHANGED <<is_running, temperature_set_point, dryer, compressed_air, env, daemon, construction, snapshot, telemetry>>

\* Lines 195-197: start the chamber and note the time.
start_chamber(t) ==
    /\ th[t].pc = "start_chamber"
    /\ is_running' = TRUE
    /\ Set(t, [Goto(Logged(th[t], <<"chamber_start">>), "start_humidity")
                 EXCEPT !.elapsed = 0])
    /\ UNCHANGED <<temperature_set_point, dryer, compressed_air, V_set, env, daemon, construction, snapshot, telemetry>>

\* As start_humidity, lowering the set-point whatever the humidity.
start_humidity_hasty(t) ==
    /\ th[t].pc = "start_humidity"
    /\ temperature_set_point' = NORMAL_OPERATING_TEMPERATURE
    /\ Set(t, [Goto(Logged(th[t], <<"humidity_ok", "set_point_standby">>),
                    "start_cooling_check")
                 EXCEPT !.elapsed = SLEEP_SETTLE])
    /\ UNCHANGED <<is_running, dryer, compressed_air, V_set, env, daemon, construction, snapshot, telemetry>>

\* Lines 198-205: one evaluation of the humidity loop: while the humidity is
\* above the requested value sleep and then check the deadline; once it is not,
\* lower the set-point to the normal operating temperature and sleep 1 s.
start_humidity(t) ==
    /\ th[t].pc = "start_humidity"
    /\ IF humidity > th[t].hum
       THEN /\ temperature_set_point' = temperature_set_point
            /\ LET f == [th[t] EXCEPT !.elapsed = th[t].elapsed + SLEEP_POLL] IN
               Set(t, IF deadline_passed(f.elapsed, f.t1) THEN Ret(f, TimeoutHumidity) ELSE f)
       ELSE /\ ~set_point_interlock(NORMAL_OPERATING_TEMPERATURE)
            /\ temperature_set_point' = NORMAL_OPERATING_TEMPERATURE
            /\ Set(t, [Goto(Logged(th[t], <<"humidity_ok", "set_point_standby">>),
                            "start_cooling_check")
                         EXCEPT !.elapsed = SLEEP_SETTLE])
    /\ UNCHANGED <<is_running, dryer, compressed_air, V_set, env, daemon, construction, snapshot, telemetry>>

\* As start_cooling_check, letting a chamber that is already cold pass.
start_cooling_check_lenient(t) ==
    /\ th[t].pc = "start_cooling_check"
    /\ Set(t, IF status \notin {"cooling down", "ready to operate"}
              THEN Ret(th[t], NotCoolingDown)
              ELSE Goto(th[t], "start_cooling"))
    /\ UNCHANGED <<hw, env, daemon, construction, snapshot, telemetry>>

\* Lines 206-207: the status must now be 'cooling down'.
start_cooling_check(t) ==
    /\ th[t].pc = "start_cooling_check"
    /\ Set(t, IF status # "cooling down"
              THEN Ret(th[t], NotCoolingDown)
              ELSE Goto(th[t], "start_cooling"))
    /\ UNCHANGED <<hw, env, daemon, construction, snapshot, telemetry>>

\* As start_cooling, without clock and deadline.
start_cooling_patient(t) ==
    /\ th[t].pc = "start_cooling"
    /\ Set(t, IF status = "cooling down" THEN th[t] ELSE Goto(th[t], "start_final"))
    /\ UNCHANGED <<hw, env, daemon, construction, snapshot, telemetry>>

\* Lines 208-213: one evaluation of the cooling-down loop.
start_cooling(t) ==
    /\ th[t].pc = "start_cooling"
    /\ IF status = "cooling down"
       THEN LET f == [th[t] EXCEPT !.elapsed = th[t].elapsed + SLEEP_POLL] IN
            Set(t, IF deadline_passed(f.elapsed, f.t2) THEN Ret(f, TimeoutCooling) ELSE f)
       ELSE Set(t, Goto(th[t], "start_final"))
    /\ UNCHANGED <<hw, env, daemon, construction, snapshot, telemetry>>

\* Lines 214-215: the status must now be 'ready to operate'.
start_final(t) ==
    /\ th[t].pc = "start_final"
    /\ Set(t, Ret(th[t], IF status # "ready to operate" THEN NotReady ELSE OK))
    /\ UNCHANGED <<hw, env, daemon, construction, snapshot, telemetry>>

\* ------------------------------------------------------------------ stop
\* Lines 218-219: validate the arguments; there is no precondition.
stop_begin(t, uto, wto) ==
    /\ th[t].pc = "idle"
    /\ Set(t, [Goto(Enter("stop"), "stop_zero")
                 EXCEPT !.t1 = uto, !.t2 = wto, !.todo = slots_names])
    /\ UNCHANGED <<hw, env, daemon, construction, snapshot, telemetry>>

\* Lines 223-225: one iteration of the loop setting every slot to 0 V.
stop_zero(t) ==
    /\ th[t].pc = "stop_zero"
    /\ \E s \in th[t].todo :
        /\ ~bias_needs_interlock(0)
        /\ V_set' = [V_set EXCEPT ![s] = 0]
        /\ LET f == [Logged(th[t], <<"zero">>) EXCEPT !.todo = th[t].todo \ {s}] IN
           Set(t, IF f.todo = {} THEN [Goto(f, "stop_unbias") EXCEPT !.elapsed = 0] ELSE f)
    /\ UNCHANGED <<is_running, temperature_set_point, dryer, compressed_air, env, daemon, construction, snapshot, telemetry>>

\* Lines 226-229: one evaluation of the loop waiting for the slots to unbias.
stop_unbias(t) ==
    /\ th[t].pc = "stop_unbias"
    /\ IF is_any_slot_biased
       THEN LET f == [th[t] EXCEPT !.elapsed = th[t].elapsed + SLEEP_POLL] IN
            Set(t, IF deadline_passed(f.elapsed, f.t1) THEN Ret(f, TimeoutUnbias) ELSE f)
       ELSE Set(t, Goto(Logged(th[t], <<"unbiased">>), "stop_room"))
    /\ UNCHANGED <<hw, env, daemon, construction, snapshot, telemetry>>

\* Lines 231-232: set-point to room temperature, through the interlocked setter.
stop_room(t) ==
    /\ th[t].pc = "stop_room"
    /\ IF set_point_interlock(ROOM_TEMPERATURE)
       THEN /\ temperature_set_point' = temperature_set_point
            /\ Set(t, Ret(th[t], InterlockViolation))
       ELSE /\ temperature_set_point' = ROOM_TEMPERATURE
            /\ Set(t, [Goto(Logged(th[t], <<"set_point_room">>), "stop_warm_up")
                         EXCEPT !.elapsed = 0])
    /\ UNCHANGED <<is_running, dryer, compressed_air, V_set, env, daemon, construction, snapshot, telemetry>>

\* As stop_warm_up, stopping the chamber whatever the temperature.
stop_warm_up_hasty(t) ==
    /\ th[t].pc = "stop_warm_up"
    /\ is_running' = FALSE
    /\ Set(t, Goto(Logged(th[t], <<"warm", "chamber_stop">>), "stop_final"))
    /\ UNCHANGED <<temperature_set_point, dryer, compressed_air, V_set, env, daemon, construction, snapshot, telemetry>>

\* Lines 233-239: one evaluation of the warm-up loop; once the temperature has
\* reached 18 degrees stop the chamber and sleep 1 s.
stop_warm_up(t) ==
    /\ th[t].pc = "stop_warm_up"
    /\ IF temperature < WARM_THRESHOLD
       THEN /\ is_running' = is_running
            /\ LET f == [th[t] EXCEPT !.elapsed = th[t].elapsed + SLEEP_POLL] IN
               Set(t, IF deadline_passed(f.elapsed, f.t2) THEN Ret(f, TimeoutWarmUp) ELSE f)
       ELSE /\ is_running' = FALSE
            /\ Set(t, Goto(Logged(th[t], <<"warm", "chamber_stop">>), "stop_final"))
    /\ UNCHANGED <<temperature_set_point, dryer, compressed_air, V_set, env, daemon, construction, snapshot, telemetry>>

\* Lines 241-242: the status must now be 'not running'.
stop_final(t) ==
    /\ th[t].pc = "stop_final"
    /\ Set(t, Ret(th[t], IF status # "not running" THEN NotStopped ELSE OK))
    /\ UNCHANGED <<hw, env, daemon, construction, snapshot, telemetry>>

\* --------------------------------------------------------------- hardware
\* The sensor reads another temperature than at its last reading.
temperature_drift ==
    /\ \E c \in Temperatures \ {temperature} : temperature' = c
    /\ drifted' = TRUE
    /\ UNCHANGED <<hw, humidity, V_mon, th, daemon, construction, snapshot, telemetry>>

\* The sensor reads another humidity than at its last reading.
humidity_drift ==
    /\ \E h \in Humidities \ {humidity} : humidity' = h
    /\ drifted' = TRUE
    /\ th' = [t \in DOMAIN th |->
                IF th[t].op = "start" /\ th[t].pc # "idle" /\ ~(humidity' > th[t].hum)
                THEN [th[t] EXCEPT !.dry = TRUE]
                ELSE th[t]]
    /\ UNCHANGED <<hw, temperature, V_mon, daemon, construction, snapshot, telemetry>>

\* The measured voltage of a channel reads another value than before, whatever
\* it was set to.
voltage_drift(s) ==
    /\ \E v \in Voltages \ {V_mon[s]} : V_mon' = [V_mon EXCEPT ![s] = v]
    /\ drifted' = TRUE
    /\ UNCHANGED <<hw, temperature, humidity, th, daemon, construction, snapshot, telemetry>>

\* The output of a channel reaches the voltage it was set to.
ramp(s) ==
    /\ V_mon[s] # V_set[s]
    /\ V_mon' = [V_mon EXCEPT ![s] = V_set[s]]
    /\ UNCHANGED <<hw, temperature, humidity, drifted, th, daemon, construction, snapshot, telemetry>>

\* ------------------------------------------------------------------ daemon
W(w, f) == wk' = [wk EXCEPT ![w] = f]

\* The frame of a worker whose thread function has raised e: the thread is dead.
Dies(f, e) == [f EXCEPT !.pc = "dead", !.error = e]

At(f, label) == [f EXCEPT !.pc = label]

\* Lines 74-85, devices_configuration_df: the test of line 77 looks for the
\* unmangled name '__devices_configuration_df_lock', which the assignments of
\* lines 78-79 never create, so every call makes a new lock, resets the time of
\* the last load to 1999 and reads the file again. Reading raises when the file
\* is unreadable.
devices_configuration_df == devices_file
LoadError == "LoadError"
KeyError == "KeyError"
HardwareError == "HardwareError"

\* Lines 92-95: the thread function starts: first copy of the configuration.
devices_begin(w) ==
    /\ wk[w].pc = "started"
    /\ W(w, IF ~devices_configuration_df.readable
            THEN Dies(wk[w], LoadError)
            ELSE [At(wk[w], "top") EXCEPT !.previous = devices_configuration_df,
                                         !.first = TRUE])
    /\ UNCHANGED <<hw, env, th, supervision, slots_locks, control, current_compliance, telegram, construction, snapshot, telemetry>>

\* Line 96: the top of the loop reads the flag.
devices_top(w) ==
    /\ wk[w].pc = "top"
    /\ W(w, At(wk[w], IF keep_running THEN "status" ELSE "finished"))
    /\ UNCHANGED <<hw, env, th, supervision, slots_locks, control, current_compliance, telegram, construction, snapshot, telemetry>>

\* Lines 97-98: after the sleep, nothing to do unless 'ready to operate'.
devices_status(w) ==
    /\ wk[w].pc = "status"
    /\ W(w, At(wk[w], IF status # "ready to operate" THEN "top" ELSE "load"))
    /\ UNCHANGED <<hw, env, th, supervision, slots_locks, control, current_compliance, telegram, construction, snapshot, telemetry>>

\* Lines 100-103: read the configuration and compare it with the previous one.
devices_load(w) ==
    /\ wk[w].pc = "load"
    /\ W(w, IF ~devices_configuration_df.readable
            THEN Dies(wk[w], LoadError)
            ELSE LET f == [wk[w] EXCEPT !.current = devices_configuration_df] IN
                 IF f.current # f.previous \/ f.first
                 THEN [At(f, "push") EXCEPT !.todo = slots_names]
                 ELSE At(f, "remember"))
    /\ UNCHANGED <<hw, env, th, supervision, slots_locks, control, current_compliance, telegram, construction, snapshot, telemetry>>

\* Lines 104-105 and 242: the next slot of the loop; its lock is acquired
\* without blocking (an RLock: free, or already owned by this thread), and a
\* slot whose lock is taken is passed over.
devices_push(w) ==
    /\ wk[w].pc = "push"
    /\ IF wk[w].todo = {}
       THEN /\ W(w, At(wk[w], "remember"))
            /\ slots_locks' = slots_locks
       ELSE \E s \in wk[w].todo :
            LET f == [wk[w] EXCEPT !.todo = wk[w].todo \ {s}] IN
            IF slots_locks[s] \in {FREE, w}
            THEN /\ slots_locks' = [slots_locks EXCEPT ![s] = w]
                 /\ W(w, [At(f, "conf_read") EXCEPT !.slot = s, !.skipped = f.skipped \ {s}])
            ELSE /\ slots_locks' = slots_locks
                 /\ W(w, [f EXCEPT !.skipped = f.skipped \cup {s}])
    /\ UNCHANGED <<hw, env, th, supervision, control, current_compliance, telegram, construction, snapshot, telemetry>>

\* Line 243: a fresh copy of the configuration.
configure_read(w) ==
    /\ wk[w].pc = "conf_read"
    /\ W(w, IF ~devices_configuration_df.readable
            THEN Dies(wk[w], LoadError)
            ELSE [At(wk[w], "conf_compliance") EXCEPT !.cfg = devices_configuration_df])
    /\ UNCHANGED <<hw, env, th, supervision, slots_locks, control, current_compliance, telegram, construction, snapshot, telemetry>>

\* Line 244: the slot's row is looked up (a missing row raises) and its
\* compliance written to the channel (the hardware may fail).
configure_compliance(w) ==
    /\ wk[w].pc = "conf_compliance"
    /\ LET s == wk[w].slot IN
       IF s \notin DOMAIN wk[w].cfg.rows
       THEN /\ W(w, Dies(wk[w], KeyError))
            /\ current_compliance' = current_compliance
       ELSE \E fails \in BOOLEAN :
            IF fails
            THEN /\ W(w, Dies(wk[w], HardwareError))
                 /\ current_compliance' = current_compliance
            ELSE /\ W(w, At(wk[w], "conf_output"))
                 /\ current_compliance' =
                        [current_compliance EXCEPT ![s] = wk[w].cfg.rows[s].compliance]
    /\ UNCHANGED <<hw, env, th, supervision, slots_locks, control, telegram, construction, snapshot, telemetry>>

\* Lines 245-246: switch the output on and set the ramp speed.
configure_output(w) ==
    /\ wk[w].pc = "conf_output"
    /\ W(w, At(wk[w], "conf_bias"))
    /\ UNCHANGED <<hw, env, th, supervision, slots_locks, control, current_compliance, telegram, construction, snapshot, telemetry>>

\* Line 247: call set_bias_voltage with the slot's standby voltage.
configure_bias(w) ==
    /\ wk[w].pc = "conf_bias"
    /\ th[w].op = "none"
    /\ set_bias_voltage_status(w, wk[w].slot, wk[w].cfg.rows[wk[w].slot].standby)

\* Lines 247-248: set_bias_voltage has returned: release the lock; if it has
\* raised, the thread dies where it is.
configure_release(w) ==
    /\ wk[w].pc = "conf_bias"
    /\ th[w].pc = "idle"
    /\ th[w].op = "set_bias_voltage"
    /\ th' = [th EXCEPT ![w] = Idle]
    /\ IF th[w].res = OK
       THEN /\ slots_locks' = [slots_locks EXCEPT ![wk[w].slot] = FREE]
            /\ W(w, [At(wk[w], "push") EXCEPT !.slot = BadSlot, !.cfg = NoTable])
       ELSE /\ slots_locks' = slots_locks
            /\ W(w, Dies(wk[w], th[w].res))
    /\ UNCHANGED <<hw, env, supervision, control, current_compliance, telegram, construction, snapshot, telemetry>>

\* Lines 106-107: remember the configuration for the next iteration.
devices_remember(w) ==
    /\ wk[w].pc = "remember"
    /\ W(w, [At(wk[w], "top") EXCEPT !.previous = wk[w].current, !.current = NoTable,
                                     !.first = FALSE])
    /\ UNCHANGED <<hw, env, th, supervision, slots_locks, control, current_compliance, telegram, construction, snapshot, telemetry>>

\* The thread of update_devices_standby_conditions_thread_function.
devices_thread(w) ==
    \/ devices_begin(w)
    \/ devices_top(w)
    \/ devices_status(w)
    \/ devices_load(w)
    \/ devices_push(w)
    \/ configure_read(w)
    \/ configure_compliance(w)
    \/ configure_output(w)
    \/ configure_bias(w)
    \/ set_bias_voltage_temperature(w)
    \/ set_bias_voltage_write(w)
    \/ configure_release(w)
    \/ devices_remember(w)

\* Lines 60-71, climatic_df: as devices_configuration_df, for climatic.ods.
climatic_df == climatic_file

\* Lines 110-111: the thread function starts: first copy of the climatic table.
chamber_begin(w) ==
    /\ wk[w].pc = "started"
    /\ W(w, IF ~climatic_df.readable
            THEN Dies(wk[w], LoadError)
            ELSE [At(wk[w], "top") EXCEPT !.previous = climatic_df, !.first = TRUE])
    /\ UNCHANGED <<hw, env, th, supervision, slots_locks, control, current_compliance, telegram, construction, snapshot, telemetry>>

\* Line 112: the top of the loop reads the flag.
chamber_top(w) ==
    /\ wk[w].pc = "top"
    /\ W(w, At(wk[w], IF keep_running THEN "status" ELSE "finished"))
    /\ UNCHANGED <<hw, env, th, supervision, slots_locks, control, current_compliance, telegram, construction, snapshot, telemetry>>

\* Lines 113-114: after the sleep, nothing to do unless 'ready to operate'.
chamber_status(w) ==
    /\ wk[w].pc = "status"
    /\ W(w, At(wk[w], IF status # "ready to operate" THEN "top" ELSE "load"))
    /\ UNCHANGED <<hw, env, th, supervision, slots_locks, control, current_compliance, telegram, construction, snapshot, telemetry>>

\* Lines 116-118: read the climatic table and compare it with the previous one.
chamber_load(w) ==
    /\ wk[w].pc = "load"
    /\ W(w, IF ~climatic_df.readable
            THEN Dies(wk[w], LoadError)
            ELSE LET f == [wk[w] EXCEPT !.current = climatic_df] IN
                 IF f.current # f.previous \/ f.first
                 THEN At(f, "set_point")
                 ELSE At(f, "remember"))
    /\ UNCHANGED <<hw, env, th, supervision, slots_locks, control, current_compliance, telegram, construction, snapshot, telemetry>>

\* Line 119: call the set-point setter with the table's standby temperature.
chamber_set_point(w) ==
    /\ wk[w].pc = "set_point"
    /\ th[w].op = "none"
    /\ temperature_set_point_check(w, wk[w].current.rows[1].standby_temperature)

\* Line 119: the setter has returned; if it has raised, the thread dies.
chamber_returned(w) ==
    /\ wk[w].pc = "set_point"
    /\ th[w].pc = "idle"
    /\ th[w].op = "temperature_set_point"
    /\ th' = [th EXCEPT ![w] = Idle]
    /\ W(w, IF th[w].res = OK THEN At(wk[w], "remember") ELSE Dies(wk[w], th[w].res))
    /\ UNCHANGED <<hw, env, supervision, slots_locks, control, current_compliance, telegram, construction, snapshot, telemetry>>

\* Lines 120-121: remember the table for the next iteration.
chamber_remember(w) ==
    /\ wk[w].pc = "remember"
    /\ W(w, [At(wk[w], "top") EXCEPT !.previous = wk[w].current, !.current = NoTable,
                                     !.first = FALSE])
    /\ UNCHANGED <<hw, env, th, supervision, slots_locks, control, current_compliance, telegram, construction, snapshot, telemetry>>

\* The thread of update_chamber_temperature_thread_function.
chamber_thread(w) ==
    \/ chamber_begin(w)
    \/ chamber_top(w)
    \/ chamber_status(w)
    \/ chamber_load(w)
    \/ chamber_set_point(w)
    \/ temperature_set_point_write(w)
    \/ chamber_returned(w)
    \/ chamber_remember(w)

\* TelegramReporter.send_message(m).
send_message(m) == telegram' = [msg |-> m, bit |-> ~telegram.bit]

\* Lines 146-152, check_what_to_do_config: setup.run is looked for first.
check_what_to_do_config ==
    IF setup_run THEN "run test"
    ELSE IF setup_stop THEN "stop test"
    ELSE "undefined"

\* Lines 145-152: the thread function starts: check_what_to_do_config is defined.
runstop_begin(w) ==
    /\ wk[w].pc = "started"
    /\ W(w, At(wk[w], "top"))
    /\ UNCHANGED <<hw, env, th, supervision, slots_locks, control, current_compliance, telegram, construction, snapshot, telemetry>>

\* Line 153: the top of the loop reads the flag.
runstop_top(w) ==
    /\ wk[w].pc = "top"
    /\ W(w, At(wk[w], IF keep_running THEN "tick" ELSE "finished"))
    /\ UNCHANGED <<hw, env, th, supervision, slots_locks, control, current_compliance, telegram, construction, snapshot, telemetry>>

\* Lines 154-156, 158, 163-164: after the sleep, look at the markers and at the
\* status, and choose what to do.
runstop_tick(w) ==
    /\ wk[w].pc = "tick"
    /\ LET what_to_do == check_what_to_do_config IN
       IF what_to_do = "run test" /\ status = "not running"
       THEN W(w, At(wk[w], "call_start")) /\ UNCHANGED telegram
       ELSE IF what_to_do = "stop test" /\ status # "not running"
       THEN W(w, At(wk[w], "call_stop")) /\ UNCHANGED telegram
       ELSE IF what_to_do = "undefined"
       THEN W(w, At(wk[w], "top")) /\ send_message("I dont konw what to do")
       ELSE W(w, At(wk[w], "top")) /\ UNCHANGED telegram
    /\ UNCHANGED <<hw, env, th, supervision, slots_locks, control, current_compliance, construction, snapshot, telemetry>>

\* Line 157: call start() with its default arguments (20 %RH, and timeouts
\* longer than one poll interval).
runstop_start(w) ==
    /\ wk[w].pc = "call_start"
    /\ th[w].op = "none"
    /\ start_check(w, 20, MaxTimeout, MaxTimeout)

\* Line 159: call stop() with its default arguments.
runstop_stop(w) ==
    /\ wk[w].pc = "call_stop"
    /\ th[w].op = "none"
    /\ stop_begin(w, MaxTimeout, MaxTimeout)

\* Lines 157 and 159: start() or stop() has returned; if it has raised, the
\* thread dies.
runstop_returned(w) ==
    /\ wk[w].pc \in {"call_start", "call_stop"}
    /\ th[w].pc = "idle"
    /\ th[w].op \in {"start", "stop"}
    /\ th' = [th EXCEPT ![w] = Idle]
    /\ W(w, IF th[w].res # OK THEN Dies(wk[w], th[w].res)
            ELSE At(wk[w], IF wk[w].pc = "call_stop" THEN "report_stop" ELSE "top"))
    /\ UNCHANGED <<hw, env, supervision, slots_locks, control, current_compliance, telegram, construction, snapshot, telemetry>>

\* Lines 160-162: report that the setup has been stopped.
runstop_report(w) ==
    /\ wk[w].pc = "report_stop"
    /\ send_message("Setup has been stopped, it is safe to open.")
    /\ W(w, At(wk[w], "top"))
    /\ UNCHANGED <<hw, env, th, supervision, slots_locks, control, current_compliance, construction, snapshot, telemetry>>

\* The thread of start_stop_test_thread_function.
runstop_thread(w) ==
    \/ runstop_begin(w)
    \/ runstop_top(w)
    \/ runstop_tick(w)
    \/ runstop_start(w)
    \/ start_dryer(w)
    \/ start_room(w)
    \/ start_zero(w)
    \/ start_chamber(w)
    \/ start_humidity(w)
    \/ start_cooling_check(w)
    \/ start_cooling(w)
    \/ start_final(w)
    \/ runstop_stop(w)
    \/ stop_zero(w)
    \/ stop_unbias(w)
    \/ stop_room(w)
    \/ stop_warm_up(w)
    \/ stop_final(w)
    \/ runstop_returned(w)
    \/ runstop_report(w)

\* Lines 167-171: the thread function starts: the time of the last check is now.
watchdog_begin(w) ==
    /\ wk[w].pc = "started"
    /\ W(w, [At(wk[w], "top") EXCEPT !.since = 0])
    /\ UNCHANGED <<hw, env, th, supervision, slots_locks, control, current_compliance, telegram, construction, snapshot, telemetry>>

\* Line 172: the top of the loop reads the flag.
watchdog_top(w) ==
    /\ wk[w].pc = "top"
    /\ W(w, At(wk[w], IF keep_running THEN "look" ELSE "finished"))
    /\ UNCHANGED <<hw, env, th, supervision, slots_locks, control, current_compliance, telegram, construction, snapshot, telemetry>>

\* Line 175: some slot's measured voltage is above the threshold.
any_device_is_biased == \E s \in slots_names : V_mon[s] > BIAS_VOLTAGE_THRESHOLD

\* Line 176.
temperature_is_higher_than_temperature_threshold == temperature > TEMPERATURE_THRESHOLD

\* Lines 173-180: more than a checking time after the last check, check again
\* and warn when a device is biased and the temperature is high.
watchdog_look(w) ==
    /\ wk[w].pc = "look"
    /\ IF wk[w].since > CHECKING_TIME_IN_SECONDS
       THEN /\ W(w, [At(wk[w], "sleep") EXCEPT !.since = 0])
            /\ IF any_device_is_biased /\ temperature_is_higher_than_temperature_threshold
               THEN send_message("WARNING: devices still biased")
               ELSE UNCHANGED telegram
       ELSE /\ W(w, At(wk[w], "sleep"))
            /\ UNCHANGED telegram
    /\ UNCHANGED <<hw, env, th, supervision, slots_locks, control, current_compliance, construction, snapshot, telemetry>>

\* Line 181: sleep; the time since the last check grows by the sleep time.
watchdog_sleep(w) ==
    /\ wk[w].pc = "sleep"
    /\ W(w, [At(wk[w], "top") EXCEPT !.since = wk[w].since + THREADS_SLEEP_TIME])
    /\ UNCHANGED <<hw, env, th, supervision, slots_locks, control, current_compliance, telegram, construction, snapshot, telemetry>>

\* The thread of temperature_monitoring_thread_function.
watchdog_thread(w) ==
    \/ watchdog_begin(w)
    \/ watchdog_top(w)
    \/ watchdog_look(w)
    \/ watchdog_sleep(w)

\* ------------------------------------------------- the standby-record loop
\* Lines 123-126: log_devices_standby_IV_thread_function begins by going
\* through every slot to log it once.
logger_begin(w) ==
    /\ wk[w].pc = "started"
    /\ W(w, [At(wk[w], "log_try") EXCEPT !.first = TRUE, !.todo = slots_names])
    /\ UNCHANGED <<hw, env, th, supervision, slots_locks, control, current_compliance, telegram, construction, snapshot, telemetry>>

\* Line 252 (called from lines 126 and 132): log_single_device_standby_IV
\* takes the slot's lock only if it is free, and otherwise does nothing.
\* skipped (history) remembers the slots whose record was passed over.
log_acquire(w) ==
    /\ wk[w].pc = "log_try"
    /\ \E s \in IF wk[w].first THEN wk[w].todo ELSE {wk[w].slot} :
        IF slots_locks[s] = FREE
        THEN /\ slots_locks' = [slots_locks EXCEPT ![s] = w]
             /\ W(w, [At(wk[w], "log_append") EXCEPT !.slot = s])
        ELSE /\ slots_locks' = slots_locks
             /\ W(w, [At(wk[w], "log_stamp")
                        EXCEPT !.slot = s, !.skipped = wk[w].skipped \cup {s}])
    /\ UNCHANGED <<hw, env, th, supervision, control, current_compliance, telegram, construction, snapshot, telemetry>>

\* Lines 253-258: measure the voltage, the current and the status byte of the
\* channel (the hardware may fail), append the record, release the lock.
log_append(w) ==
    /\ wk[w].pc = "log_append"
    /\ LET s == wk[w].slot IN
       \E fails \in BOOLEAN :
       IF fails
       THEN /\ W(w, Dies(wk[w], HardwareError))
            /\ UNCHANGED <<slots_locks, standby_log>>
       ELSE /\ standby_log' = [standby_log EXCEPT ![s] = (standby_log[s] + 1) % 2]
            /\ slots_locks' = [slots_locks EXCEPT ![s] = FREE]
            /\ W(w, [At(wk[w], "log_stamp") EXCEPT !.skipped = wk[w].skipped \ {s}])
    /\ UNCHANGED <<hw, env, th, supervision, control, current_compliance, telegram, construction, snapshot>>

\* Lines 127 and 133: the time of this slot's last record is now, whether or
\* not log_single_device_standby_IV wrote one.
log_stamp(w) ==
    /\ wk[w].pc = "log_stamp"
    /\ LET s == wk[w].slot
           f == [wk[w] EXCEPT !.last[s] = 0, !.todo = wk[w].todo \ {s}] IN
       W(w, IF f.first
            THEN IF f.todo = {} THEN [At(f, "top") EXCEPT !.first = FALSE]
                                ELSE At(f, "log_try")
            ELSE At(f, "log_due"))
    /\ UNCHANGED <<hw, env, th, supervision, slots_locks, control, current_compliance, telegram, construction, snapshot, telemetry>>

\* Line 128: the top of the loop reads the flag.
logger_top(w) ==
    /\ wk[w].pc = "top"
    /\ W(w, At(wk[w], IF keep_running THEN "sleep" ELSE "finished"))
    /\ UNCHANGED <<hw, env, th, supervision, slots_locks, control, current_compliance, telegram, construction, snapshot, telemetry>>

\* Line 129: sleep; every slot's last record is a sleep older. The ages stop
\* counting at the interval of the table, from where on line 131 sees no
\* difference.
logger_sleep(w) ==
    /\ wk[w].pc = "sleep"
    /\ W(w, [At(wk[w], "log_due")
               EXCEPT !.todo = slots_names,
                      !.last = [s \in slots_names |->
                                   IF wk[w].last[s] + THREADS_SLEEP_TIME > LogEvery
                                   THEN LogEvery
                                   ELSE wk[w].last[s] + THREADS_SLEEP_TIME]])
    /\ UNCHANGED <<hw, env, th, supervision, slots_locks, control, current_compliance, telegram, construction, snapshot, telemetry>>

\* Lines 130-131: for the next slot, a fresh copy of the configuration is read
\* (an unreadable file or a missing row raises) and the age of the slot's last
\* record compared with its interval.
log_due(w) ==
    /\ wk[w].pc = "log_due"
    /\ IF wk[w].todo = {}
       THEN W(w, At(wk[w], "top"))
       ELSE \E s \in wk[w].todo :
            LET f == [wk[w] EXCEPT !.todo = wk[w].todo \ {s}, !.slot = s] IN
            W(w, IF ~devices_configuration_df.readable THEN Dies(f, LoadError)
                 ELSE IF s \notin DOMAIN devices_configuration_df.rows THEN Dies(f, KeyError)
                 ELSE IF f.last[s] >= devices_configuration_df.rows[s].every
                      THEN At(f, "log_try")
                      ELSE f)
    /\ UNCHANGED <<hw, env, th, supervision, slots_locks, control, current_compliance, telegram, construction, snapshot, telemetry>>

\* The thread of log_devices_standby_IV_thread_function.
logger_thread(w) ==
    \/ logger_begin(w)
    \/ log_acquire(w)
    \/ log_append(w)
    \/ log_stamp(w)
    \/ logger_top(w)
    \/ logger_sleep(w)
    \/ log_due(w)

\* Lines 210-222: the threads that run() has started.
threads == {w \in Workers : wk[w].pc # "unstarted"}

\* Thread.is_alive(): started, and its function has neither returned nor raised.
is_alive(w) == wk[w].pc \notin {"unstarted", "finished", "dead"}

\* Lines 226-227: watch until some thread is no longer alive.
run_watch ==
    /\ run_pc = "watching"
    /\ ~(\A w \in threads : is_alive(w))
    /\ run_pc' = "finally"
    /\ UNCHANGED <<hw, env, th, keep_running, slots_locks, control, current_compliance, wk, telegram, construction, snapshot, telemetry>>

\* Line 231: tell the threads to stop.
run_lower ==
    /\ run_pc = "finally"
    /\ keep_running' = FALSE
    /\ run_pc' = "report"
    /\ UNCHANGED <<hw, env, th, slots_locks, control, current_compliance, wk, telegram, construction, snapshot, telemetry>>

\* Line 232: report that the daemon is exiting.
run_report ==
    /\ run_pc = "report"
    /\ send_message("Exiting daemon, waiting for all threads to finish...")
    /\ run_pc' = "waiting"
    /\ UNCHANGED <<hw, env, th, keep_running, slots_locks, control, current_compliance, wk, construction, snapshot, telemetry>>

\* As run_wait, without waiting.
run_wait_impatient ==
    /\ run_pc = "waiting"
    /\ run_pc' = "farewell"
    /\ UNCHANGED <<hw, env, th, keep_running, slots_locks, control, current_compliance, wk, telegram, construction, snapshot, telemetry>>

\* Lines 233-235: wait until no thread is alive.
run_wait ==
    /\ run_pc = "waiting"
    /\ ~(\E w \in threads : is_alive(w))
    /\ run_pc' = "farewell"
    /\ UNCHANGED <<hw, env, th, keep_running, slots_locks, control, current_compliance, wk, telegram, construction, snapshot, telemetry>>

\* Line 236: the last message. The watch loop of lines 226-227 ended without
\* raising (a thread that died made is_alive() false, and its exception stayed
\* in that thread), so the except clause of lines 228-229 was not entered, the
\* finally clause ends with no exception pending, and run() returns to its
\* caller: run_pc "over".
run_farewell ==
    /\ run_pc = "farewell"
    /\ send_message("The daemon is dead.")
    /\ run_pc' = "over"
    /\ UNCHANGED <<hw, env, th, keep_running, slots_locks, control, current_compliance, wk, construction, snapshot, telemetry>>

\* The thread that called run(), from line 226 on.
run ==
    \/ run_watch
    \/ run_lower
    \/ run_report
    \/ run_wait
    \/ run_farewell

\* Lines 50-77: TheSetup(...) is called with the slots table.
construct ==
    /\ caen_outputs_per_slot = Unbuilt
    /\ caen_outputs_per_slot' = TheSetup(slots_df)
    /\ UNCHANGED <<hw, env, th, supervision, slots_locks, control, current_compliance, wk, telegram, slots_df, snapshot, telemetry>>

\* Line 77: hasattr is asked for '__devices_configuration_df_lock', while the
\* assignments of lines 78-79, made inside the class, create
\* '_LongTermSetupDaemon__devices_configuration_df_lock': no object has the
\* attribute asked for.
hasattr_lock == FALSE

R(r, f) == rd' = [rd EXCEPT ![r] = f]

\* Lines 76-79: a call begins; without the attribute, make a new lock and set
\* the time of the last update to 1999.
accessor_enter(r) ==
    /\ rd[r].pc \in {"idle", "done"}
    /\ df_state' = IF hasattr_lock THEN df_state
                   ELSE [df_state EXCEPT !.lock = r, !.held[r] = FREE, !.last = 0]
    /\ R(r, [NotReading EXCEPT !.pc = "with", !.began = mtime])
    /\ UNCHANGED <<hw, env, th, daemon, construction, mtime, telemetry>>

\* Line 80: acquire the lock object that the attribute holds now; wait while
\* another thread owns it.
accessor_acquire(r) ==
    /\ rd[r].pc = "with"
    /\ df_state.held[df_state.lock] \in {FREE, r}
    /\ df_state' = [df_state EXCEPT !.held[df_state.lock] = r]
    /\ R(r, [rd[r] EXCEPT !.pc = "stat", !.lock = df_state.lock])
    /\ UNCHANGED <<hw, env, th, daemon, construction, mtime, telemetry>>

\* Lines 81-82: is the file newer than the last update?
accessor_stat(r) ==
    /\ rd[r].pc = "stat"
    /\ R(r, [rd[r] EXCEPT !.pc = IF mtime > df_state.last THEN "read" ELSE "copy"])
    /\ UNCHANGED <<hw, env, th, daemon, construction, mtime, df_state, telemetry>>

\* Line 83: read the file; an unreadable file raises, and the with statement
\* releases the lock.
accessor_read(r) ==
    /\ rd[r].pc = "read"
    /\ IF devices_file.readable
       THEN /\ df_state' = [df_state EXCEPT !.df = devices_file, !.loaded = mtime]
            /\ R(r, [rd[r] EXCEPT !.pc = "stamp"])
       ELSE /\ df_state' = [df_state EXCEPT !.held[rd[r].lock] = FREE]
            /\ R(r, [rd[r] EXCEPT !.pc = "done", !.lock = "none", !.error = LoadError])
    /\ UNCHANGED <<hw, env, th, daemon, construction, mtime, telemetry>>

\* Line 84: the time of the last update is now.
accessor_stamp(r) ==
    /\ rd[r].pc = "stamp"
    /\ df_state' = [df_state EXCEPT !.last = mtime]
    /\ R(r, [rd[r] EXCEPT !.pc = "copy"])
    /\ UNCHANGED <<hw, env, th, daemon, construction, mtime, telemetry>>

\* Line 85: return a copy, releasing the lock.
accessor_copy(r) ==
    /\ rd[r].pc = "copy"
    /\ df_state' = [df_state EXCEPT !.held[rd[r].lock] = FREE]
    /\ R(r, [rd[r] EXCEPT !.pc = "done", !.lock = "none", !.result = df_state.df])
    /\ UNCHANGED <<hw, env, th, daemon, construction, mtime, telemetry>>

\* A call of devices_configuration_df by the thread r.
accessor(r) ==
    \/ accessor_enter(r)
    \/ accessor_acquire(r)
    \/ accessor_stat(r)
    \/ accessor_read(r)
    \/ accessor_stamp(r)
    \/ accessor_copy(r)

\* Somebody saves devices_configuration.ods: its modification time advances.
save_devices_file ==
    /\ mtime < MaxSaves
    /\ mtime' = mtime + 1
    /\ \E c \in (DevicesTables \cup {Unreadable}) \ {devices_file} : devices_file' = c
    /\ UNCHANGED <<hw, env, th, supervision, slots_locks, current_compliance, wk, climatic_file, setup_run, setup_stop, telegram, construction, df_state, rd, telemetry>>

\* Somebody creates or removes setup.run or setup.stop.
edit_markers ==
    /\ \/ setup_run' = ~setup_run /\ UNCHANGED setup_stop
       \/ setup_stop' = ~setup_stop /\ UNCHANGED setup_run
    /\ UNCHANGED <<hw, env, th, supervision, slots_locks, current_compliance, wk, devices_file, climatic_file, telegram, construction, snapshot, telemetry>>

\* Somebody edits climatic.ods.
edit_climatic_file ==
    /\ \E c \in (ClimaticTables \cup {Unreadable}) \ {climatic_file} : climatic_file' = c
    /\ UNCHANGED <<hw, env, th, supervision, slots_locks, current_compliance, wk, devices_file, setup_run, setup_stop, telegram, construction, snapshot, telemetry>>

\* Somebody edits devices_configuration.ods.
edit_devices_file ==
    /\ \E c \in (DevicesTables \cup {Unreadable}) \ {devices_file} : devices_file' = c
    /\ UNCHANGED <<hw, env, th, supervision, slots_locks, current_compliance, wk, climatic_file, setup_run, setup_stop, telegram, construction, snapshot, telemetry>>

\* A thread outside run() takes a slot's lock for a measurement, and gives it
\* back.
external_acquire(s) ==
    /\ slots_locks[s] = FREE
    /\ slots_locks' = [slots_locks EXCEPT ![s] = EXTERNAL]
    /\ UNCHANGED <<hw, env, th, supervision, control, current_compliance, wk, telegram, construction, snapshot, telemetry>>

external_release(s) ==
    /\ slots_locks[s] = EXTERNAL
    /\ slots_locks' = [slots_locks EXCEPT ![s] = FREE]
    /\ UNCHANGED <<hw, env, th, supervision, control, current_compliance, wk, telegram, construction, snapshot, telemetry>>

\* ----------------------------------------------------------- specifications
Call(t) ==
    \/ \E s \in SlotArgs, v \in Voltages : set_bias_voltage_status(t, s, v)
    \/ set_bias_voltage_temperature(t)
    \/ set_bias_voltage_write(t)
    \/ \E c \in SetPoints : temperature_set_point_check(t, c)
    \/ temperature_set_point_write(t)
    \/ \E h \in HumidityThresholds, hto \in Timeouts, cto \in Timeouts : start_check(t, h, hto, cto)
    \/ start_dryer(t)
    \/ start_room(t)
    \/ start_zero(t)
    \/ start_chamber(t)
    \/ start_humidity(t)
    \/ start_cooling_check(t)
    \/ start_cooling(t)
    \/ start_final(t)
    \/ \E uto \in Timeouts, wto \in Timeouts : stop_begin(t, uto, wto)
    \/ stop_zero(t)
    \/ stop_unbias(t)
    \/ stop_room(t)
    \/ stop_warm_up(t)
    \/ stop_final(t)

Hardware ==
    \/ temperature_drift
    \/ humidity_drift
    \/ \E s \in slots_names : ramp(s)

\* One caller at a time, on a rig whose readings may change at any moment.
Next == Call("main") \/ Hardware

Spec == Init /\ [][Next]_vars

\* The calls that wait: start() and stop().
StartStop(t) ==
    \/ \E h \in HumidityThresholds, hto \in Timeouts, cto \in Timeouts : start_check(t, h, hto, cto)
    \/ start_dryer(t)
    \/ start_room(t)
    \/ start_zero(t)
    \/ start_chamber(t)
    \/ start_humidity(t)
    \/ start_cooling_check(t)
    \/ start_cooling(t)
    \/ start_final(t)
    \/ \E uto \in Timeouts, wto \in Timeouts : stop_begin(t, uto, wto)
    \/ stop_zero(t)
    \/ stop_unbias(t)
    \/ stop_room(t)
    \/ stop_warm_up(t)
    \/ stop_final(t)

\* One caller of start() and stop(), on a rig whose temperature, humidity and
\* slot voltages behave in any way at all.
NextWaits ==
    \/ StartStop("main")
    \/ temperature_drift
    \/ humidity_drift
    \/ \E s \in slots_names : voltage_drift(s)

\* The caller's thread keeps executing: a call in progress takes its next step.
SpecWaits == Init /\ [][NextWaits]_vars /\ WF_vars(StartStop("main"))

\* Two callers of the two setters at once, on the rig as a successful start()
\* leaves it, and with steady sensor readings.
InitConc ==
    /\ NoDaemon
    /\ Constructed
    /\ is_running = TRUE
    /\ temperature_set_point = NORMAL_OPERATING_TEMPERATURE
    /\ dryer = TRUE
    /\ compressed_air = TRUE
    /\ temperature = NORMAL_OPERATING_TEMPERATURE
    /\ humidity = 20
    /\ V_set = [s \in slots_names |-> 0]
    /\ V_mon = [s \in slots_names |-> 0]
    /\ th = [t \in Threads |-> IF t = "main" THEN Ret(Enter("start"), OK) ELSE Idle]
    /\ drifted = TRUE

Setters(t) ==
    \/ \E s \in SlotArgs, v \in Voltages : set_bias_voltage_status(t, s, v)
    \/ set_bias_voltage_temperature(t)
    \/ set_bias_voltage_write(t)
    \/ \E c \in SetPoints : temperature_set_point_check(t, c)
    \/ temperature_set_point_write(t)

NextConc == (\E t \in Threads : Setters(t)) \/ (\E s \in slots_names : ramp(s))

SpecConc == InitConc /\ [][NextConc]_vars

\* One caller of the two setters on the rig as a successful start() leaves it
\* (running, set-point and temperature -20, no slot biased), who may also ask
\* for a set-point of 0 degrees.
NextScenario ==
    \/ Setters("main")
    \/ temperature_set_point_check("main", 0)
    \/ \E s \in slots_names : ramp(s)

SpecScenario == InitConc /\ [][NextScenario]_vars

\* The daemon at work on the rig as a successful start() leaves it: the flag is
\* up, run() has started the threads S, and devices_configuration.ods holds f.
InitThreads(S, f) ==
    /\ NoRecords
    /\ NoReaders
    /\ Constructed
    /\ is_running = TRUE
    /\ temperature_set_point = NORMAL_OPERATING_TEMPERATURE
    /\ dryer = TRUE
    /\ compressed_air = TRUE
    /\ temperature = NORMAL_OPERATING_TEMPERATURE
    /\ humidity = 20
    /\ V_set = [s \in slots_names |-> 0]
    /\ V_mon = [s \in slots_names |-> 0]
    /\ th = [w \in Workers |-> Idle]
    /\ drifted = TRUE
    /\ keep_running = TRUE
    /\ run_pc = "watching"
    /\ slots_locks = [s \in slots_names |-> FREE]
    /\ devices_file = f
    /\ climatic_file = ClimaticTable(NORMAL_OPERATING_TEMPERATURE)
    /\ setup_run = TRUE
    /\ setup_stop = FALSE
    /\ telegram = [msg |-> "Daemon has started!", bit |-> FALSE]
    /\ current_compliance = [s \in slots_names |-> NoCompliance]
    /\ wk = [w \in Workers |-> IF w \in S THEN At(Unstarted, "started") ELSE Unstarted]

InitDaemon == InitThreads(Workers, FullTable(0, 1))

\* The device-reconciliation loop, with the configuration being edited, slot
\* locks being taken from outside, and the temperature and the outputs moving.
NextReconcile ==
    \/ devices_thread(DEVICES)
    \/ edit_devices_file
    \/ \E s \in slots_names : external_acquire(s)
    \/ \E s \in slots_names : external_release(s)
    \/ temperature_drift
    \/ \E s \in slots_names : ramp(s)

SpecReconcile == InitDaemon /\ [][NextReconcile]_vars

\* The voltages a caller asks for to unbias a slot, with the threshold of either
\* sign, and the first voltage above it.
AroundThreshold ==
    {0 - UNBIASED_VOLTAGE_THRESHOLD, 0, UNBIASED_VOLTAGE_THRESHOLD,
     UNBIASED_VOLTAGE_THRESHOLD + 1}

\* The rig as a caller of set_bias_voltage may find it: the chamber running or
\* not, cold or at room temperature, at either set-point.
InitUnbias ==
    /\ NoDaemon
    /\ Constructed
    /\ is_running \in BOOLEAN
    /\ dryer = is_running
    /\ compressed_air = is_running
    /\ temperature_set_point \in {NORMAL_OPERATING_TEMPERATURE, ROOM_TEMPERATURE}
    /\ temperature \in Temperatures
    /\ humidity = 20
    /\ V_set = [s \in slots_names |-> 0]
    /\ V_mon = [s \in slots_names |-> 0]
    /\ th = [t \in Threads |-> Idle]
    /\ drifted = FALSE

\* One caller of set_bias_voltage, with the temperature and the measured
\* voltages changing at any moment.
NextUnbias ==
    \/ \E s \in SlotArgs, v \in AroundThreshold : set_bias_voltage_status("main", s, v)
    \/ set_bias_voltage_temperature("main")
    \/ set_bias_voltage_write("main")
    \/ temperature_drift
    \/ \E s \in slots_names : voltage_drift(s)

SpecUnbias == InitUnbias /\ [][NextUnbias]_vars

\* Somebody edits devices_configuration.ods while the status is not 'ready to
\* operate'.
edit_devices_file_unready ==
    /\ status # "ready to operate"
    /\ edit_devices_file

\* The device-reconciliation loop, with the configuration being edited only
\* while the status is not 'ready to operate', slot locks being taken from
\* outside, and the temperature moving.
NextPending ==
    \/ devices_thread(DEVICES)
    \/ edit_devices_file_unready
    \/ \E s \in slots_names : external_acquire(s)
    \/ \E s \in slots_names : external_release(s)
    \/ temperature_drift

SpecPending == InitThreads({DEVICES}, FullTable(0, 1)) /\ [][NextPending]_vars

\* The run/stop loop, with the markers being created and removed and the
\* temperature, the humidity and the slot voltages behaving in any way at all.
NextRunStop ==
    \/ runstop_thread(RUNSTOP)
    \/ edit_markers
    \/ temperature_drift
    \/ humidity_drift
    \/ \E s \in slots_names : voltage_drift(s)

SpecRunStop == InitDaemon /\ [][NextRunStop]_vars

\* The watchdog, with the temperature and the slot voltages behaving in any
\* way at all.
NextWatchdog ==
    \/ watchdog_thread(WATCHDOG)
    \/ temperature_drift
    \/ \E s \in slots_names : voltage_drift(s)

SpecWatchdog == InitDaemon /\ [][NextWatchdog]_vars

\* run() with the two reconciliation threads, on any devices configuration, the
\* slots' outputs following their set voltages.
InitSupervise == \E f \in DevicesTables : InitThreads({DEVICES, CHAMBER}, f)

NextSupervise ==
    \/ run
    \/ devices_thread(DEVICES)
    \/ chamber_thread(CHAMBER)
    \/ \E s \in slots_names : ramp(s)

\* Every thread keeps executing: a thread that can take a step takes it.
SpecSupervise ==
    /\ InitSupervise
    /\ [][NextSupervise]_vars
    /\ WF_vars(run)
    /\ WF_vars(devices_thread(DEVICES))
    /\ WF_vars(chamber_thread(CHAMBER))

\* The construction of TheSetup from any of the slots tables.
InitConstruct ==
    /\ NoDaemon
    /\ slots_df \in SlotTables
    /\ caen_outputs_per_slot = Unbuilt
    /\ is_running = FALSE
    /\ temperature_set_point = ROOM_TEMPERATURE
    /\ dryer = FALSE
    /\ compressed_air = FALSE
    /\ temperature = ROOM_TEMPERATURE
    /\ humidity = 20
    /\ V_set = [s \in slots_names |-> 0]
    /\ V_mon = [s \in slots_names |-> 0]
    /\ th = [t \in Threads |-> Idle]
    /\ drifted = FALSE

SpecConstruct == InitConstruct /\ [][construct]_vars

\* Two threads reading the devices configuration while it is being saved.
NextAccessor ==
    \/ \E r \in Readers : accessor(r)
    \/ save_devices_file

SpecAccessor == InitDaemon /\ [][NextAccessor]_vars

\* The run/stop loop and the device-reconciliation loop side by side, on a
\* configuration with a biased standby, the markers being created and removed,
\* the temperature moving and the slots' outputs following their set voltages.
NextLoops ==
    \/ runstop_thread(RUNSTOP)
    \/ devices_thread(DEVICES)
    \/ edit_markers
    \/ temperature_drift
    \/ \E s \in slots_names : ramp(s)

SpecLoops == InitThreads({RUNSTOP, DEVICES}, FullTable(11, 2)) /\ [][NextLoops]_vars

\* The standby-record loop alone, with threads outside run() taking and
\* releasing the slots' locks for their measurements.
NextTelemetry ==
    \/ logger_thread(LOGGER)
    \/ \E s \in slots_names : external_acquire(s)
    \/ \E s \in slots_names : external_release(s)

SpecTelemetry == InitThreads({LOGGER}, FullTable(0, 1)) /\ [][NextTelemetry]_vars

\* ================================================================== claims
\* Vocabulary of the claims, written out independently of the operators above.
Ready == "ready to operate"
SlotBiased(s) == Abs(V_mon[s]) > 5
AnySlotBiased == \E s \in slots_names : SlotBiased(s)
\* Thread t takes a step (a change of the history field dry alone is none).
Steps(t) == [th'[t] EXCEPT !.dry = FALSE] # [th[t] EXCEPT !.dry = FALSE]
\* Thread t returns from a call in this step.
Returns(t) == Steps(t) /\ th'[t].pc = "idle"
Controller == <<is_running, temperature_set_point, dryer, compressed_air, V_set>>

\* C1: for every valid slot and every requested voltage whose magnitude is above
\* the threshold, of either sign, set_bias_voltage raises the interlock error and
\* leaves the set voltage alone when the status is not 'ready to operate' or the
\* temperature is above the maximum operating temperature, and writes the
\* voltage otherwise.
C1_InterlockOnMagnitude ==
    [][\A t \in Threads :
        /\ (th[t].pc = "idle" /\ Steps(t) /\ th'[t].op = "set_bias_voltage" /\ status # Ready) =>
            \A s \in slots_names, v \in Voltages :
                (Abs(v) > 5 /\ set_bias_voltage_status(t, s, v))
                    => (Returns(t) /\ th'[t].res = InterlockViolation /\ V_set' = V_set)
        /\ (th[t].pc = "sbv_temperature" /\ Steps(t) /\ temperature > 0 - 18)
                => (Returns(t) /\ th'[t].res = InterlockViolation /\ V_set' = V_set)
        /\ (th[t].pc = "sbv_write" /\ Steps(t) /\ th[t].slot \in slots_names)
                => (Returns(t) /\ th'[t].res = OK /\ V_set'[th[t].slot] = th[t].volt)
      ]_vars

\* C2: as long as the sensor readings have not drifted, the controller's own
\* calls, one at a time, never make the status 'error', and no slot is biased
\* above the threshold unless the status is 'ready to operate'.
C2_NoHazardByOwnCalls ==
    ~drifted => (status # "error" /\ (AnySlotBiased => status = Ready))

\* C3: the set-point setter raises the interlock error and leaves the chamber's
\* set-point alone when the requested value is above the maximum operating
\* temperature while a slot is biased above the threshold; in every other case
\* it goes on to write the requested value, and the write writes that value.
C3_SetPointInterlock ==
    [][\A t \in Threads :
        /\ (th[t].pc = "idle" /\ Steps(t) /\ th'[t].op = "temperature_set_point") =>
            \A c \in SetPoints :
                temperature_set_point_check(t, c) =>
                    /\ temperature_set_point' = temperature_set_point
                    /\ IF c > 0 - 18 /\ AnySlotBiased
                       THEN Returns(t) /\ th'[t].res = InterlockViolation
                       ELSE th'[t].pc = "tsp_write" /\ th'[t].celsius = c
        /\ (th[t].pc = "tsp_write" /\ Steps(t)) =>
                (Returns(t) /\ temperature_set_point' = th[t].celsius /\ th'[t].res = OK)
        /\ (th[t].pc \in {"start_room", "stop_room"} /\ Steps(t)) =>
                IF AnySlotBiased
                THEN /\ temperature_set_point' = temperature_set_point
                     /\ Returns(t) /\ th'[t].res = InterlockViolation
                ELSE temperature_set_point' = 20 /\ ~Returns(t)
      ]_vars

\* C3 witness: the setter has just refused a set-point while a slot is biased.
C3_Witness ==
    /\ th["main"].op = "temperature_set_point"
    /\ th["main"].res = InterlockViolation
    /\ AnySlotBiased

\* C4: the check-then-write sequences of a set_bias_voltage above the threshold
\* and of a set-point above the maximum operating temperature, made by two
\* threads, never overlap, and the status never becomes 'error'.
C4_Serialized ==
    /\ \A a \in Threads : \A b \in Threads \ {a} :
        ~(/\ th[a].pc \in {"sbv_temperature", "sbv_write"}
          /\ th[a].volt > 5
          /\ th[b].pc = "tsp_write"
          /\ th[b].celsius > 0 - 18)
    /\ status # "error"

\* C5: the status is the mapping of the four inputs in which the boundary values
\* (set-point or temperature equal to the maximum operating temperature) count
\* as 'ready to operate'.
StatusWithBoundaryIncluded ==
    IF ~is_running THEN "not running"
    ELSE IF temperature_set_point <= 0 - 18 /\ temperature <= 0 - 18 THEN Ready
    ELSE IF temperature_set_point <= 0 - 18 /\ temperature > 0 - 18 /\ ~AnySlotBiased
         THEN "cooling down"
    ELSE IF temperature_set_point > 0 - 18 /\ ~AnySlotBiased THEN "warm"
    ELSE "error"

C5_StatusMapping == status = StatusWithBoundaryIncluded

\* C6: start() called while the chamber is running (any status other than
\* 'not running') raises the invalid-transition error in its first step, with
\* dryer, compressed air, set-point, set voltages and running flag unchanged.
C6_StartPrecondition ==
    [][\A t \in Threads :
        /\ (th[t].pc = "idle" /\ Steps(t) /\ th'[t].op = "start" /\ is_running) =>
                /\ Returns(t)
                /\ th'[t].res = InvalidTransition
                /\ Controller' = Controller
        /\ (Returns(t) /\ th'[t].res = InvalidTransition) =>
                (th[t].pc = "idle" /\ th'[t].op = "start" /\ is_running
                 /\ Controller' = Controller)
      ]_vars

\* C6 witness: a start() has been refused with the chamber running.
C6_Witness ==
    /\ th["main"].op = "start"
    /\ th["main"].res = InvalidTransition
    /\ is_running

\* C7: a call that ends with a precondition or interlock error has performed no
\* hardware write, neither in the step that raises nor in an earlier step.
C7_RejectedCallsWriteNothing ==
    [][\A t \in Threads :
        (Returns(t) /\ th'[t].res \in {InterlockViolation, InvalidTransition}) =>
            (th[t].log = <<>> /\ Controller' = Controller)
      ]_vars

\* Vocabulary of the order claims: the hardware actions of a call, in the
\* order the claims give them, and what each of them does to the rig.
Zeros == [i \in 1..NSlots |-> "zero"]
StartSequence ==
    <<"dryer", "compressed_air", "set_point_room">> \o Zeros
        \o <<"chamber_start", "humidity_ok", "set_point_standby">>
StopSequence == Zeros \o <<"unbiased", "set_point_room", "warm", "chamber_stop">>
IsPrefix(p, q) == Len(p) <= Len(q) /\ SubSeq(q, 1, Len(p)) = p
Has(log, e) == \E i \in 1..Len(log) : log[i] = e
\* The entries thread t adds to its log in this step.
Added(t) == {i \in 1..Len(th'[t].log) : i > Len(th[t].log)}
Effect(t, e) ==
    CASE e = "dryer" -> dryer'
      [] e = "compressed_air" -> compressed_air'
      [] e = "set_point_room" -> temperature_set_point' = 20
      [] e = "zero" -> \E s \in th[t].todo : V_set'[s] = 0 /\ th'[t].todo = th[t].todo \ {s}
      [] e = "chamber_start" -> is_running' /\ th[t].todo = {} /\ \A s \in slots_names : V_set'[s] = 0
      [] e = "humidity_ok" -> ~(humidity > th[t].hum)
      [] e = "set_point_standby" -> temperature_set_point' = 0 - 20
      [] e = "unbiased" -> ~AnySlotBiased /\ th[t].todo = {} /\ \A s \in slots_names : V_set[s] = 0
      [] e = "warm" -> temperature >= 18
      [] e = "chamber_stop" -> ~is_running'
      [] OTHER -> FALSE
\* Thread t, inside the call `name`, takes a step that follows the order `seq`:
\* its log stays a prefix of seq, every entry it adds has its effect, and the
\* rig changes only in a step that adds an entry.
Ordered(t, name, seq) ==
    (th[t].op = name /\ th[t].pc # "idle" /\ Steps(t)) =>
        /\ IsPrefix(th[t].log, seq)
        /\ Returns(t) => Controller' = Controller
        /\ ~Returns(t) =>
            /\ IsPrefix(th'[t].log, seq)
            /\ IsPrefix(th[t].log, th'[t].log)
            /\ \A i \in Added(t) : Effect(t, th'[t].log[i])
            /\ Added(t) = {} => Controller' = Controller

\* C8: a start() that has started the chamber and during which the humidity was
\* above the requested value at every moment ends with the humidity timeout, at
\* an elapsed time above humidity_timeout_seconds and at most one poll interval
\* (11 s) above it, and no step of it lowers the set-point to the standby
\* temperature.
C8_HumidityTimeout ==
    [][\A t \in Threads :
        (th[t].op = "start" /\ th[t].pc # "idle" /\ ~th[t].dry /\ Steps(t)) =>
            /\ ~Has(th[t].log, "set_point_standby")
            /\ temperature_set_point' = 0 - 20 => temperature_set_point = 0 - 20
            /\ th[t].pc \in {"start_dryer", "start_room", "start_zero", "start_chamber",
                             "start_humidity"}
            /\ ~Returns(t) => ~th'[t].dry
            /\ th[t].pc = "start_humidity" =>
                /\ th[t].elapsed <= th[t].t1
                /\ IF th[t].elapsed + 11 > th[t].t1
                   THEN Returns(t) /\ th'[t].res = TimeoutHumidity
                   ELSE th'[t].pc = "start_humidity" /\ th'[t].elapsed = th[t].elapsed + 11
            /\ (Returns(t) /\ Has(th[t].log, "chamber_start")) =>
                /\ th'[t].res = TimeoutHumidity
                /\ th[t].elapsed + 11 > th[t].t1
                /\ th[t].elapsed + 11 <= th[t].t1 + 11
      ]_vars

\* C8 witness: a start() has ended with the humidity timeout, the humidity
\* being above the requested value and never having changed.
C8_Witness ==
    /\ th["main"].op = "start"
    /\ th["main"].res = TimeoutHumidity
    /\ humidity > 20
    /\ ~drifted

\* C9: a start() that passed its precondition enables dryer and compressed air,
\* sets the set-point to room temperature, sets every slot to 0 V, starts the
\* chamber and lowers the set-point to the standby temperature, in this order,
\* the last only in a step that reads the humidity at or below the requested
\* value; and it returns without error only from its last status check, with
\* all of this done and having read the status 'ready to operate'.
C9_StartOrder ==
    [][\A t \in Threads :
        /\ Ordered(t, "start", StartSequence)
        /\ (Returns(t) /\ th[t].op = "start" /\ th[t].pc # "idle" /\ th'[t].res = OK) =>
            /\ th[t].pc = "start_final"
            /\ th[t].log = StartSequence
            /\ status = Ready
      ]_vars

\* C9 witness: a start() has returned without error.
C9_Witness ==
    /\ th["main"].op = "start"
    /\ th["main"].res = OK
    /\ is_running
    /\ dryer /\ compressed_air

\* C10: stop() sets every slot to 0 V, reads that no slot is biased, raises the
\* set-point to room temperature, reads a temperature of at least 18 degrees and
\* stops the chamber, in this order; it returns without error only from its
\* last status check, with all of this done and having read 'not running'; a
\* wait that is still unsatisfied after a sleep that passes its deadline ends
\* the call with that wait's timeout error, and a call that ends with a timeout
\* error has performed none of the later steps.
C10_StopOrder ==
    [][\A t \in Threads :
        /\ Ordered(t, "stop", StopSequence)
        /\ (Returns(t) /\ th[t].op = "stop" /\ th[t].pc # "idle") =>
            /\ th'[t].res = OK =>
                /\ th[t].pc = "stop_final"
                /\ th[t].log = StopSequence
                /\ ~is_running
            /\ th'[t].res = TimeoutUnbias =>
                /\ th[t].elapsed + 11 > th[t].t1
                /\ ~Has(th[t].log, "unbiased")
                /\ ~Has(th[t].log, "set_point_room")
                /\ ~Has(th[t].log, "chamber_stop")
            /\ th'[t].res = TimeoutWarmUp =>
                /\ th[t].elapsed + 11 > th[t].t2
                /\ ~Has(th[t].log, "warm")
                /\ ~Has(th[t].log, "chamber_stop")
        /\ (Steps(t) /\ th[t].pc = "stop_unbias" /\ AnySlotBiased /\ th[t].elapsed + 11 > th[t].t1)
            => (Returns(t) /\ th'[t].res = TimeoutUnbias)
        /\ (Steps(t) /\ th[t].pc = "stop_warm_up" /\ temperature < 18 /\ th[t].elapsed + 11 > th[t].t2)
            => (Returns(t) /\ th'[t].res = TimeoutWarmUp)
      ]_vars

\* C10 witness: a stop() has returned without error.
C10_Witness ==
    /\ th["main"].op = "stop"
    /\ th["main"].res = OK
    /\ ~is_running
    /\ temperature_set_point = 20

\* C11: every call of start() and of stop() that is in progress ends (with
\* success or with an error), whatever humidity, temperature and slot voltages
\* do, provided the calling thread keeps running; and a wait that finds its
\* condition unsatisfied goes on only while its deadline has not passed.
C11_CallsTerminate ==
    /\ \A name \in {"start", "stop"} :
        (th["main"].op = name /\ th["main"].pc # "idle") ~> (th["main"].pc = "idle")
    /\ [][\A t \in Threads :
            (Steps(t) /\ ~Returns(t) /\ th'[t].pc = th[t].pc
                /\ th[t].pc \in {"start_humidity", "start_cooling", "stop_unbias", "stop_warm_up"}) =>
                /\ th'[t].elapsed = th[t].elapsed + 11
                /\ th'[t].elapsed <= (IF th[t].pc \in {"start_humidity", "stop_unbias"}
                                      THEN th[t].t1 ELSE th[t].t2)
         ]_vars

\* C11 witness: a start() has ended with the cooling-down timeout.
C11_Witness ==
    /\ th["main"].op = "start"
    /\ th["main"].res = TimeoutCooling
    /\ status = "cooling down"

\* The step in which a loop calling set_bias_voltage(slot, 0) for every slot
\* (lines 193-194 of start, 223-224 of stop) makes its last call.
ZeroedEverySlot(t) ==
    /\ th[t].pc \in {"start_zero", "stop_zero"}
    /\ Steps(t)
    /\ th'[t].pc # th[t].pc

\* C12 (as stated): right after set_bias_voltage(slot, 0) has been called for
\* every slot, no slot's measured voltage being negative, _is_any_slot_biased
\* returns false.
C12_ZeroedMeansUnbiased ==
    [][\A t \in Threads :
        (ZeroedEverySlot(t) /\ \A s \in slots_names : V_mon[s] >= 0) => ~is_any_slot_biased'
      ]_vars

\* C12 (amended): set_bias_voltage(slot, 0) on a valid slot is never refused and
\* sets that slot's set voltage to 0 V; after it has been called for every slot
\* every set voltage is 0 V; and from then on _is_any_slot_biased returns false
\* in every state where each channel's measured voltage has reached its set
\* voltage.
C12_ZeroedUnbiasedOnceSettled ==
    /\ [][\A t \in Threads :
            /\ (th[t].pc = "idle" /\ Steps(t) /\ th'[t].op = "set_bias_voltage"
                    /\ th'[t].volt = 0 /\ ~Returns(t)) => th'[t].pc = "sbv_write"
            /\ (th[t].pc = "idle" /\ Returns(t) /\ th'[t].op = "set_bias_voltage") =>
                    \A s \in slots_names : ~set_bias_voltage_status(t, s, 0)
            /\ (th[t].pc = "sbv_write" /\ Steps(t) /\ th[t].volt = 0 /\ th[t].slot \in slots_names) =>
                    (Returns(t) /\ th'[t].res = OK /\ V_set'[th[t].slot] = 0)
            /\ ZeroedEverySlot(t) => \A s \in slots_names : V_set'[s] = 0
         ]_vars
    /\ []((\A s \in slots_names : V_set[s] = 0 /\ V_mon[s] = V_set[s]) => ~is_any_slot_biased)

\* C12 witness: stop() has set every slot to 0 V, has waited once because a slot
\* still measured above the threshold, and now no slot is biased.
C12_Witness ==
    /\ th["main"].pc = "stop_unbias"
    /\ th["main"].elapsed > 0
    /\ \A s \in slots_names : V_set[s] = 0 /\ V_mon[s] = 0

\* The rig of the scenario: chamber running, set-point and temperature -20, and
\* no slot set or measured at a negative voltage.
ScenarioRig ==
    /\ is_running
    /\ temperature_set_point = 0 - 20
    /\ temperature = 0 - 20
    /\ \A s \in slots_names : V_set[s] >= 0 /\ V_mon[s] >= 0

\* C13: on the rig of the scenario with no slot biased the status is 'ready to
\* operate' and set_bias_voltage(slot, 11) passes both checks of the interlock;
\* and once a slot has been set to 11 V by such a call, every attempt to raise
\* the set-point to 0 degrees is refused with the interlock error, the
\* set-point staying at -20.
C13_Scenario ==
    /\ []((ScenarioRig /\ ~AnySlotBiased) => status = Ready)
    /\ [][\A t \in Threads :
            /\ (ScenarioRig /\ ~AnySlotBiased /\ th[t].pc = "idle" /\ Steps(t)
                    /\ th'[t].op = "set_bias_voltage") =>
                    \A s \in slots_names :
                        set_bias_voltage_status(t, s, 11) => th'[t].pc = "sbv_temperature"
            /\ (ScenarioRig /\ th[t].pc = "sbv_temperature" /\ Steps(t)) => th'[t].pc = "sbv_write"
            /\ (ScenarioRig /\ (\E s \in slots_names : V_set[s] = 11)
                    /\ th[t].pc = "idle" /\ Steps(t) /\ th'[t].op = "temperature_set_point") =>
                    (temperature_set_point_check(t, 0) =>
                        /\ Returns(t)
                        /\ th'[t].res = InterlockViolation
                        /\ temperature_set_point' = 0 - 20)
         ]_vars

\* Vocabulary of the daemon claims.
\* Worker w takes a step of its thread function.
Works(w) == wk'[w] # wk[w]
Alive(w) == wk[w].pc \notin {"unstarted", "dead", "finished"}

\* C14: the device-reconciliation loop passes over a slot whose lock another
\* thread holds without raising, and on a later tick on which it finds the
\* status 'ready to operate' and the lock of a passed-over slot free again, it
\* pushes the configuration.
C14_SkippedSlotRetried ==
    [][/\ (wk[DEVICES].pc = "push" /\ Works(DEVICES)) =>
            /\ wk'[DEVICES].pc # "dead"
            /\ \A s \in slots_names :
                (s \in wk[DEVICES].todo /\ s \notin wk'[DEVICES].todo
                    /\ slots_locks[s] \notin {FREE, DEVICES}) =>
                    (wk'[DEVICES].pc = "push" /\ slots_locks' = slots_locks)
       /\ (wk[DEVICES].pc = "load" /\ Works(DEVICES) /\ devices_file.readable
            /\ \E s \in wk[DEVICES].skipped : slots_locks[s] = FREE) =>
            wk'[DEVICES].pc = "push"
      ]_vars

\* What the reconciliation loops write to: the slots' compliances and set
\* voltages and the chamber's set-point.
Reconciled == <<current_compliance, V_set, temperature_set_point>>

\* C15: every step in which a reconciliation loop writes to the hardware is
\* taken in a state whose status is 'ready to operate' (with the boundary
\* temperature on either side), also when the status has changed since the
\* loop read it.
C15_WritesOnlyWhenReady ==
    [][(Reconciled' # Reconciled) =>
            (status = Ready \/ StatusWithBoundaryIncluded = Ready)]_vars

\* C16: on each tick of the run/stop loop, start() is invoked exactly when only
\* the run marker is present and the status is 'not running'; stop() is invoked
\* exactly when only the stop marker is present and the status is not 'not
\* running', and an alert follows its return; an alert is sent on the tick
\* exactly when neither marker or both markers are present.
C16_RunStopDecisions ==
    [][/\ (wk[RUNSTOP].pc = "tick" /\ Works(RUNSTOP)) =>
            /\ (wk'[RUNSTOP].pc = "call_start") <=>
                    (setup_run /\ ~setup_stop /\ status = "not running")
            /\ (wk'[RUNSTOP].pc = "call_stop") <=>
                    (setup_stop /\ ~setup_run /\ status # "not running")
            /\ (telegram' # telegram) <=> (setup_run <=> setup_stop)
       /\ (wk[RUNSTOP].pc = "call_stop" /\ Works(RUNSTOP) /\ th[RUNSTOP].res = OK) =>
            wk'[RUNSTOP].pc = "report_stop"
       /\ (wk[RUNSTOP].pc = "report_stop" /\ Works(RUNSTOP)) => telegram' # telegram
      ]_vars

\* C17: at every check of the watchdog at which some slot's voltage is above
\* the threshold in magnitude and the temperature is above the temperature
\* threshold, the watchdog sends an alert.
C17_WatchdogAlerts ==
    [][(/\ wk[WATCHDOG].pc = "look"
        /\ wk'[WATCHDOG].since < wk[WATCHDOG].since
        /\ AnySlotBiased
        /\ temperature > 0 - 18) => telegram' # telegram]_vars

Terminated(w) == wk[w].pc \in {"dead", "finished"}
Death == \E w \in Workers : Terminated(w)

\* C18: once a worker thread has terminated, the flag is eventually lowered and
\* every worker eventually terminates; run() is over only when no worker is
\* alive; a worker that reads the lowered flag at the top of its loop finishes
\* there and then, only so does a worker finish, and a finished worker stays
\* finished.
C18_Shutdown ==
    /\ Death ~> ~keep_running
    /\ Death ~> (\A w \in Workers : ~Alive(w))
    /\ [](run_pc = "over" => \A w \in Workers : ~Alive(w))
    /\ [][\A w \in Workers :
            /\ (wk[w].pc = "top" /\ Works(w) /\ ~keep_running) => wk'[w].pc = "finished"
            /\ (wk'[w].pc = "finished" /\ Works(w)) => (wk[w].pc = "top" /\ ~keep_running)
            /\ wk[w].pc = "finished" => wk'[w].pc = "finished"]_vars

\* C18 happens: a worker has died, the other has finished, run() is over.
C18_Witness ==
    /\ run_pc = "over"
    /\ wk[DEVICES].pc = "dead"
    /\ wk[CHAMBER].pc = "finished"
    /\ ~keep_running

\* C19: a worker that has met a hardware failure while configuring a slot is
\* alive, and the daemon's flag is up.
C19_HardwareFailureConfined ==
    \A w \in Workers : wk[w].error = "HardwareError" => (Alive(w) /\ keep_running)

\* A devices configuration without the row of some slot.
Invalid(t) == t.readable /\ \E s \in slots_names : s \notin DOMAIN t.rows

\* C20: a worker that has loaded a good devices configuration and has then,
\* on a reload, met an unreadable one or one without the row of some slot, is
\* alive and the daemon's flag is up; and a worker whose copy of the
\* configuration lacks a slot's row writes nothing of it to the hardware.
C20_BadConfigurationConfined ==
    /\ [](\A w \in Workers :
            (wk[w].previous.readable /\ wk[w].error \in {"LoadError", "KeyError"}) =>
                (Alive(w) /\ keep_running))
    /\ [][\A w \in Workers :
            (Invalid(wk[w].cfg) /\ Works(w)) => Reconciled' = Reconciled]_vars

\* The rows of the table are in one-to-one correspondence with the channels of
\* the two supplies.
Partition(df) ==
    /\ df.columns = SlotsColumns
    /\ Len(df.rows) = 8
    /\ {<<df.rows[i].serial, df.rows[i].channel>> : i \in 1..Len(df.rows)}
            = {"139", "13398"} \X (0..3)
    /\ \A i \in 1..Len(df.rows) : df.rows[i].model \in {"DT1419ET", "DT1470ET"}

\* C21: the construction of TheSetup succeeds exactly when the rows of the
\* slots table are in one-to-one correspondence with the channels 0..3 of the
\* two known supplies, and then no two slots have the same channel.
C21_AcceptsExactlyPartitions ==
    caen_outputs_per_slot.result # "unbuilt" =>
        /\ (caen_outputs_per_slot.result = "ok") <=> Partition(slots_df)
        /\ \A m, n \in DOMAIN caen_outputs_per_slot.outputs :
                m # n => caen_outputs_per_slot.outputs[m] # caen_outputs_per_slot.outputs[n]

Loads(r) == rd[r].pc = "read" /\ rd'[r].pc = "stamp"

\* C22: a read of the devices configuration loads the file only when the file
\* has been modified since it was last loaded, and a read during which the file
\* is not modified returns what the file holds.
C22_LoadsOnlyWhenModified ==
    [][\A r \in Readers :
        /\ Loads(r) => mtime > df_state.loaded
        /\ (rd[r].pc = "copy" /\ rd'[r].pc = "done" /\ rd[r].began = mtime) =>
                rd'[r].result = devices_file]_vars

Inside(r) == rd[r].pc \in {"stat", "read", "stamp", "copy"}

\* C23: at no time are two threads both between the acquisition of the lock of
\* devices_configuration_df and its release, and every copy returned is the
\* dataframe as some load left it.
C23_OneReaderInside ==
    /\ \A a, b \in Readers : (Inside(a) /\ Inside(b)) => a = b
    /\ \A r \in Readers : rd[r].result \in DevicesTables \cup {NoTable}

\* C24: a slot's lock owned by a worker of the daemon is owned by a live worker
\* that is in its per-slot operation on that slot; and a worker that finds a
\* slot's lock taken goes on without it.
C24_LockHeldOnlyDuringOperation ==
    /\ [](\A s \in slots_names :
            slots_locks[s] \in Workers =>
                (Alive(slots_locks[s]) /\ wk[slots_locks[s]].slot = s))
    /\ [][\A w \in Workers :
            (wk[w].pc = "push" /\ Works(w)) => wk'[w].pc \in {"push", "conf_read", "remember"}]_vars

\* C25: every step that changes a slot's set voltage or compliance is taken by
\* a worker that owns that slot's lock.
C25_WritesUnderSlotLock ==
    [][\A s \in slots_names :
        (V_set'[s] # V_set[s] \/ current_compliance'[s] # current_compliance[s]) =>
            \E w \in Workers : slots_locks[s] = w /\ (th'[w] # th[w] \/ Works(w))]_vars

\* C26: the standby-record loop tries to write a record for a slot whenever the
\* age of the slot's last record has reached its interval, the try writes the
\* record when the slot's lock is free, and a slot whose record was passed over
\* because its lock was taken is tried again at the loop's next visit, one tick
\* later, whatever the age of its last record.
C26_SkippedRecordRetriedNextTick ==
    /\ [][\A s \in slots_names :
            (/\ wk[LOGGER].pc = "log_due"
             /\ s \in wk[LOGGER].todo /\ s \notin wk'[LOGGER].todo
             /\ wk'[LOGGER].pc # "dead"
             /\ (wk[LOGGER].last[s] >= LogEvery \/ s \in wk[LOGGER].skipped))
                => wk'[LOGGER].pc = "log_try"]_vars
    /\ [][(wk[LOGGER].pc = "log_try" /\ Works(LOGGER)) =>
            \E s \in slots_names :
                /\ wk'[LOGGER].slot = s
                /\ wk'[LOGGER].pc = IF slots_locks[s] = FREE THEN "log_append" ELSE "log_stamp"]_vars
    /\ [][(wk[LOGGER].pc = "log_append" /\ Works(LOGGER) /\ wk'[LOGGER].pc # "dead") =>
            standby_log'[wk[LOGGER].slot] # standby_log[wk[LOGGER].slot]]_vars

\* C27: when a worker thread died, run() does not return normally to its
\* caller.
C27_FailurePropagated ==
    run_pc = "over" => ~(\E w \in Workers : wk[w].pc = "dead")

\* C28: with the configuration changing only while the status is not 'ready to
\* operate': a tick on which the status is not ready leaves the reconciliation
\* loop's previous configuration as it was; the first later tick that finds the
\* status ready and the configuration changed goes through every slot; and
\* when the loop then takes the changed configuration as its previous one,
\* every slot with a row has that row's compliance and standby voltage.
C28_ChangeWhileNotReadyNotLost ==
    /\ [][(wk[DEVICES].pc = "status" /\ Works(DEVICES) /\ status # Ready) =>
            (wk'[DEVICES].previous = wk[DEVICES].previous /\ wk'[DEVICES].pc = "top")]_vars
    /\ [][(wk[DEVICES].pc = "load" /\ Works(DEVICES)
              /\ devices_file.readable /\ devices_file # wk[DEVICES].previous) =>
            (wk'[DEVICES].pc = "push" /\ wk'[DEVICES].todo = slots_names)]_vars
    /\ [][(wk[DEVICES].pc = "remember" /\ Works(DEVICES)
              /\ wk[DEVICES].current # wk[DEVICES].previous) =>
            \A s \in DOMAIN wk[DEVICES].current.rows :
                /\ current_compliance[s] = wk[DEVICES].current.rows[s].compliance
                /\ V_set[s] = wk[DEVICES].current.rows[s].standby]_vars

\* The stop() that thread t is in has set every slot to 0 V and has neither
\* returned nor raised.
StopHasZeroed(t) ==
    /\ th[t].op = "stop"
    /\ th[t].pc \in {"stop_unbias", "stop_room", "stop_warm_up", "stop_final"}

\* C29: while the stop() called by the run/stop loop has set every slot to 0 V
\* and has not yet returned or raised, no step sets a slot's voltage to one
\* whose magnitude is above UNBIASED_VOLTAGE_THRESHOLD.
C29_NoBiasDuringStop ==
    [][StopHasZeroed(RUNSTOP) =>
        \A s \in slots_names :
            V_set'[s] # V_set[s] => Abs(V_set'[s]) <= UNBIASED_VOLTAGE_THRESHOLD]_vars

C31_CoolingDownObservedFirst ==
    [][/\ (th["main"].pc = "start_cooling_check" /\ Steps("main")) =>
            IF status = "cooling down"
            THEN th'["main"].pc = "start_cooling"
            ELSE /\ Returns("main")
                 /\ th'["main"].res = NotCoolingDown
                 /\ Controller' = Controller
       /\ (Steps("main") /\ th'["main"].pc = "start_cooling") =>
            \/ th["main"].pc = "start_cooling"
            \/ th["main"].pc = "start_cooling_check" /\ status = "cooling down"
       /\ (Steps("main") /\ th'["main"].pc = "start_final") =>
            th["main"].pc = "start_cooling"
       /\ (Returns("main") /\ th'["main"].op = "start" /\ th'["main"].res = OK) =>
            (th["main"].pc = "start_final" /\ status = Ready)
      ]_vars

\* C31 witness: on a chamber that was already cold, with readings that never
\* changed, start() has ended with the error of its first check while the
\* status is 'ready to operate'.
C31_Witness ==
    /\ th["main"].op = "start"
    /\ th["main"].pc = "idle"
    /\ th["main"].res = NotCoolingDown
    /\ status = Ready
    /\ ~drifted

====
